---------------------------- MODULE Spec2Model ----------------------------
(***************************************************************************)
(* Model of the strategy core (src/strategy_core): process_candle and the  *)
(* indicator, signal and risk functions it calls, driven by a caller that  *)
(* feeds one closed candle at a time and keeps the TradeState.             *)
(*                                                                         *)
(* Numbers.  The code computes in IEEE doubles, and so does the model:     *)
(* every float of the model is a double held exactly, and every operation  *)
(* rounds as the double operation does (see "Floats" below).               *)
(***************************************************************************)
EXTENDS Integers, Sequences, FiniteSets, TLC

(***************************************************************************)
(* Bounds of the model.                                                    *)
(***************************************************************************)
\* Longest candle series of the caller's loop.
MaxLen == 5
\* Longest ATR array handed to atr_above_median on its own.
MedianLen == 4
\* Longest arrays handed to supertrend on its own.
SupertrendLen == 4
\* Most bars a position is held in the run of hold transitions.
HoldLen == 3
\* Longest history of closed candles a caller starts on.
LevelsLen == 54

----------------------------------------------------------------------------
(***************************************************************************)
(* Apply(fn, p) is the operation or function named fn applied to the       *)
(* arguments p; it is defined once all of them are.  The operations on     *)
(* numbers that do the rounding call one another through it, and so do the *)
(* steps of the specifications: Round(s, m, e) is Apply("Round",           *)
(* <<s, m, e>>), and the operation itself is the definition RoundDef.      *)
(* TLC then keeps one record of each operation, whatever the number of     *)
(* places it is used in.                                                   *)
(***************************************************************************)
RECURSIVE Apply(_, _)

Cmp(x, y) == Apply("Cmp", <<x, y>>)
Add(x, y) == Apply("Add", <<x, y>>)
Mul(x, y) == Apply("Mul", <<x, y>>)
Div(x, y) == Apply("Div", <<x, y>>)
Round(s, m, e) == Apply("Round", <<s, m, e>>)
RoundQuot(s, a, b, e) == Apply("RoundQuot", <<s, a, b, e>>)
BDivMod(a, b) == Apply("BDivMod", <<a, b>>)
Trunc(x) == Apply("Trunc", <<x>>)

----------------------------------------------------------------------------
(***************************************************************************)
(* Natural numbers of any size, for the significands of doubles: sequences *)
(* of limbs in base 2^14, least significant first, without a leading zero  *)
(* limb; 0 is <<>>.                                                        *)
(***************************************************************************)
LimbBits == 14
Base == 16384

Pow2Tab ==
    <<1, 2, 4, 8, 16, 32, 64, 128, 256, 512, 1024, 2048, 4096, 8192, 16384,
      32768, 65536, 131072, 262144, 524288, 1048576, 2097152, 4194304,
      8388608, 16777216, 33554432, 67108864, 134217728, 268435456,
      536870912, 1073741824>>
\* 2^k for 0 <= k <= 30.
Pow2(k) == Pow2Tab[k + 1]

Abs(n) == IF n < 0 THEN -n ELSE n
Sign(n) == IF n > 0 THEN 1 ELSE IF n < 0 THEN -1 ELSE 0
IntMax(a, b) == IF b > a THEN b ELSE a
IntMin(a, b) == IF b < a THEN b ELSE a

RECURSIVE GCD(_, _)
GCD(a, b) == IF b = 0 THEN a ELSE GCD(b, a % b)

\* The number of bits of n, for 0 <= n < 2^8.
ByteBitLen(n) ==
    IF n < 16
    THEN (IF n < 4 THEN (IF n < 2 THEN n ELSE 2) ELSE IF n < 8 THEN 3 ELSE 4)
    ELSE (IF n < 64 THEN (IF n < 32 THEN 5 ELSE 6) ELSE IF n < 128 THEN 7 ELSE 8)

\* The number of bits of n >= 0.
IntBitLen(n) ==
    IF n < 65536
    THEN (IF n < 256 THEN ByteBitLen(n) ELSE 8 + ByteBitLen(n \div 256))
    ELSE (IF n < 16777216 THEN 16 + ByteBitLen(n \div 65536)
          ELSE 24 + ByteBitLen(n \div 16777216))

RECURSIVE IntTrailingZeros(_)
\* The number of trailing zero bits of n > 0.
IntTrailingZeros(n) == IF n % 2 = 1 THEN 0 ELSE 1 + IntTrailingZeros(n \div 2)

Limb(a, i) == IF i <= Len(a) THEN a[i] ELSE 0

RECURSIVE BNorm(_)
BNorm(a) ==
    IF a = <<>> THEN a
    ELSE IF a[Len(a)] # 0 THEN a
    ELSE BNorm(SubSeq(a, 1, Len(a) - 1))

\* n >= 0 as limbs.
BFromInt(n) ==
    IF n < Base THEN (IF n = 0 THEN <<>> ELSE <<n>>)
    ELSE IF n < Base * Base THEN <<n % Base, n \div Base>>
    ELSE <<n % Base, (n \div Base) % Base, n \div (Base * Base)>>

RECURSIVE BCmpAt(_, _, _)
BCmpAt(a, b, i) ==
    IF i = 0 THEN 0
    ELSE IF a[i] > b[i] THEN 1
    ELSE IF a[i] < b[i] THEN -1
    ELSE BCmpAt(a, b, i - 1)

\* -1, 0 or 1 as a < b, a = b or a > b.
BCmp(a, b) ==
    IF Len(a) > Len(b) THEN 1
    ELSE IF Len(a) < Len(b) THEN -1
    ELSE BCmpAt(a, b, Len(a))

RECURSIVE BAddFrom(_, _, _, _)
BAddFrom(a, b, i, carry) ==
    IF i > Len(a) /\ i > Len(b) THEN (IF carry = 0 THEN <<>> ELSE <<carry>>)
    ELSE LET s == Limb(a, i) + Limb(b, i) + carry
         IN  <<s % Base>> \o BAddFrom(a, b, i + 1, s \div Base)

BAdd(a, b) == BAddFrom(a, b, 1, 0)

RECURSIVE BSubFrom(_, _, _, _)
BSubFrom(a, b, i, borrow) ==
    IF i > Len(a) THEN <<>>
    ELSE LET s == a[i] - Limb(b, i) - borrow
         IN  IF s < 0 THEN <<s + Base>> \o BSubFrom(a, b, i + 1, 1)
             ELSE <<s>> \o BSubFrom(a, b, i + 1, 0)

\* a - b for a >= b.
BSub(a, b) == BNorm(BSubFrom(a, b, 1, 0))

RECURSIVE BMulSmallFrom(_, _, _, _)
BMulSmallFrom(a, d, i, carry) ==
    IF i > Len(a) THEN (IF carry = 0 THEN <<>> ELSE <<carry>>)
    ELSE LET s == a[i] * d + carry
         IN  <<s % Base>> \o BMulSmallFrom(a, d, i + 1, s \div Base)

\* a * d for one limb d.
BMulSmall(a, d) == IF d = 0 THEN <<>> ELSE BMulSmallFrom(a, d, 1, 0)

\* a * Base^n
BShiftLimbs(a, n) == IF a = <<>> THEN a ELSE [i \in 1..n |-> 0] \o a

RECURSIVE BMulFrom(_, _, _)
BMulFrom(a, b, j) ==
    IF j > Len(b) THEN <<>>
    ELSE BAdd(BShiftLimbs(BMulSmall(a, b[j]), j - 1), BMulFrom(a, b, j + 1))

BMul(a, b) == BMulFrom(a, b, 1)

\* a * 2^k
BShl(a, k) ==
    IF k = 0 THEN a
    ELSE IF k % LimbBits = 0 THEN BShiftLimbs(a, k \div LimbBits)
    ELSE BShiftLimbs(BMulSmall(a, Pow2(k % LimbBits)), k \div LimbBits)

RECURSIVE BDivSmallFrom(_, _, _, _)
BDivSmallFrom(a, d, i, rem) ==
    IF i = 0 THEN <<>>
    ELSE LET cur == rem * Base + a[i]
         IN  Append(BDivSmallFrom(a, d, i - 1, cur % d), cur \div d)

RECURSIVE BModSmallFrom(_, _, _, _)
BModSmallFrom(a, d, i, rem) ==
    IF i = 0 THEN rem ELSE BModSmallFrom(a, d, i - 1, (rem * Base + a[i]) % d)

\* a \div d and a % d for 1 <= d <= Base.
BDivSmall(a, d) == BNorm(BDivSmallFrom(a, d, Len(a), 0))
BModSmall(a, d) == BModSmallFrom(a, d, Len(a), 0)

\* a \div 2^k
BShr(a, k) ==
    IF k \div LimbBits >= Len(a) THEN <<>>
    ELSE IF k % LimbBits = 0 THEN SubSeq(a, k \div LimbBits + 1, Len(a))
    ELSE BDivSmall(SubSeq(a, k \div LimbBits + 1, Len(a)), Pow2(k % LimbBits))

\* Bit i of a, bit 0 the lowest.
BBit(a, i) == (Limb(a, i \div LimbBits + 1) \div Pow2(i % LimbBits)) % 2

\* The bits of a below bit k are all 0.
BLowZero(a, k) ==
    /\ \A j \in 1..IntMin(k \div LimbBits, Len(a)) : a[j] = 0
    /\ Limb(a, k \div LimbBits + 1) % Pow2(k % LimbBits) = 0

BitLen(a) ==
    IF a = <<>> THEN 0
    ELSE LimbBits * (Len(a) - 1) + IntBitLen(a[Len(a)])

RECURSIVE BTrailingZerosFrom(_, _)
BTrailingZerosFrom(a, j) ==
    IF a[j] # 0 THEN LimbBits * (j - 1) + IntTrailingZeros(a[j])
    ELSE BTrailingZerosFrom(a, j + 1)

\* The number of trailing zero bits of a > 0.
BTrailingZeros(a) == BTrailingZerosFrom(a, 1)

\* a as an integer, for a < 2^28.
BToInt(a) == Limb(a, 1) + Base * Limb(a, 2)

RECURSIVE BDigit(_, _, _)
\* [d, r]: the largest digit d <= qhat with b * d <= cur, and cur - b * d.
BDigit(cur, b, qhat) ==
    LET p == BMulSmall(b, qhat)
    IN  IF BCmp(p, cur) <= 0 THEN [d |-> qhat, r |-> BSub(cur, p)]
        ELSE BDigit(cur, b, qhat - 1)

RECURSIVE BLongDiv(_, _, _, _)
\* Schoolbook division of the limbs i..1 of a by b, whose top limb is at
\* least Base / 2, given the remainder r < b left by the limbs above i.
BLongDiv(a, b, i, r) ==
    IF i = 0 THEN [q |-> <<>>, r |-> r]
    ELSE LET n == Len(b)
             cur == IF r = <<>> /\ a[i] = 0 THEN <<>> ELSE <<a[i]>> \o r
             top == Limb(cur, n + 1) * Base + Limb(cur, n)
             step == IF Len(cur) < n THEN [d |-> 0, r |-> cur]
                     ELSE BDigit(cur, b, IntMin(top \div b[n], Base - 1))
             rest == BLongDiv(a, b, i - 1, step.r)
         IN  [q |-> Append(rest.q, step.d), r |-> rest.r]

\* [q, inexact]: a \div b and whether a % b is not 0, for b > 0.
BDivModDef(a, b) ==
    IF Len(b) = 1
    THEN [q |-> BDivSmall(a, b[1]), inexact |-> BModSmall(a, b[1]) # 0]
    ELSE LET sh == LimbBits - IntBitLen(b[Len(b)])
             num == BShl(a, sh)
             den == BShl(b, sh)
             skip == IntMin(Len(num), Len(den) - 1)
             d == BLongDiv(num, den, Len(num) - skip,
                           SubSeq(num, Len(num) - skip + 1, Len(num)))
         IN  [q |-> BNorm(d.q), inexact |-> d.r # <<>>]

----------------------------------------------------------------------------
(***************************************************************************)
(* Floats.  A float is an IEEE double, held exactly:                       *)
(*   <<n, d>>        the double n/d, d a power of two up to 2^15 and       *)
(*                   |n| < 2^15, in lowest terms;                          *)
(*   <<s, 1, m, e>>  every other finite double s * m * 2^e, with s the     *)
(*                   sign, m an odd significand in limbs and e the         *)
(*                   exponent;                                             *)
(*   <<1, 0>>, <<-1, 0>>, <<0, 0>>   +inf, -inf and nan.                   *)
(* A pair <<n, d>> whose d is not a power of two is the decimal literal    *)
(* n/d: it stands for the double nearest to n/d, as float("0.001") does.   *)
(* Every operation rounds its exact result to the nearest double, ties to  *)
(* even, with gradual underflow and overflow to an infinity.  The sign of  *)
(* a zero is not kept: -0.0 is 0.0.                                        *)
(* Python's None is <<>>.                                                  *)
(***************************************************************************)
NaN == <<0, 0>>
\* float("inf")
Inf == <<1, 0>>
None == <<>>
\* None where the code returns str | None.
NoneStr == "None"

\* Bits of a double's significand, and the exponents of its smallest
\* subnormal and of the first power of two beyond its range.
MantBits == 53
MinExp == -1074
MaxExp == 1024

SmallLim == 32768

IsNaN(x) == x = NaN
IsFinite(x) == x[2] > 0
\* d divides 2^15 exactly when it is a power of two up to 2^15.
IsSmall(x) ==
    /\ Len(x) = 2
    /\ x[2] > 0 /\ x[2] <= SmallLim /\ SmallLim % x[2] = 0
    /\ x[1] < SmallLim /\ x[1] > -SmallLim

\* The double s * m * 2^e, which needs no rounding, in the form above.
Pack(s, m, e) ==
    LET tz == BTrailingZeros(m)
        q == IF tz = 0 THEN m ELSE BShr(m, tz)
        t == e + tz
    IN  IF Len(q) <= 2 /\ Limb(q, 2) <= 1 /\ t <= 0 /\ t >= -15
        THEN <<s * BToInt(q), Pow2(-t)>>
        ELSE IF t > 0 /\ BitLen(q) + t <= 15
        THEN <<s * BToInt(q) * Pow2(t), 1>>
        ELSE <<s, 1, q, t>>

\* s * m * 2^e rounded to the nearest double, ties to even.
RoundDef(s, m, e) ==
    LET shift == IntMax(BitLen(m) - MantBits, MinExp - e)
        up == /\ BBit(m, shift - 1) = 1
              /\ (~BLowZero(m, shift - 1) \/ BBit(m, shift) = 1)
        q == IF shift <= 0 THEN m
             ELSE IF up THEN BAdd(BShr(m, shift), <<1>>)
             ELSE BShr(m, shift)
        t == IF shift <= 0 THEN e ELSE e + shift
    IN  IF q = <<>> THEN <<0, 1>>
        ELSE IF BitLen(q) + t > MaxExp THEN <<s, 0>>
        ELSE Pack(s, q, t)

\* s * (a / b) * 2^e rounded to the nearest double, for b > 0: the quotient
\* is taken to 56 bits or more, with one more bit set when it is inexact.
RoundQuotDef(s, a, b, e) ==
    IF a = <<>> THEN <<0, 1>>
    ELSE LET k == IntMax(0, MantBits + 3 + BitLen(b) - BitLen(a))
             d == BDivMod(BShl(a, k), b)
         IN  IF d.inexact
             THEN Round(s, BAdd(BShl(d.q, 1), <<1>>), e - k - 1)
             ELSE Round(s, d.q, e - k)

\* The double nearest to n / d, for integers n and d > 0.
FromRatio(n, d) == RoundQuot(Sign(n), BFromInt(Abs(n)), BFromInt(d), 0)

\* float(n) for an integer n: exact, the integers of TLC being below 2^31.
Q(n) ==
    IF n < SmallLim /\ n > -SmallLim THEN <<n, 1>>
    ELSE LET tz == IntTrailingZeros(Abs(n))
         IN  <<Sign(n), 1, BFromInt(Abs(n) \div Pow2(tz)), tz>>

\* [s, m, e] with c = s * m * 2^e, for a finite c in one of the two forms.
PartsOf(c) ==
    IF Len(c) = 4 THEN [s |-> c[1], m |-> c[3], e |-> c[4]]
    ELSE [s |-> Sign(c[1]), m |-> BFromInt(Abs(c[1])),
          e |-> 1 - IntBitLen(c[2])]

\* [s, m, e] with x = s * m * 2^e, for a finite x.
Parts(x) ==
    PartsOf(IF Len(x) = 2 /\ ~IsSmall(x) THEN FromRatio(x[1], x[2]) ELSE x)

\* The float n/d (d >= 0): n/0 is an infinity of the sign of n, 0/0 is nan.
Norm(n, d) ==
    IF d = 0 THEN <<Sign(n), 0>>
    ELSE LET g == GCD(Abs(n), d)
             r == <<n \div g, d \div g>>
         IN  IF IsSmall(r) THEN r ELSE FromRatio(r[1], r[2])

\* Cmp on the parts a and b of two values.
CmpParts(a, b) ==
    LET ha == BitLen(a.m) + a.e
        hb == BitLen(b.m) + b.e
        e == IntMin(a.e, b.e)
    IN  IF a.s # b.s THEN Sign(a.s - b.s)
        ELSE IF a.s = 0 THEN 0
        ELSE IF ha # hb THEN a.s * Sign(ha - hb)
        ELSE a.s * BCmp(BShl(a.m, a.e - e), BShl(b.m, b.e - e))

\* -1, 0 or 1 as x < y, x = y or x > y, for finite x and y.
CmpDef(x, y) ==
    IF Sign(x[1]) # Sign(y[1]) THEN Sign(Sign(x[1]) - Sign(y[1]))
    ELSE IF IsSmall(x) /\ IsSmall(y) THEN Sign(x[1] * y[2] - y[1] * x[2])
    ELSE CmpParts(Parts(x), Parts(y))

\* A value whose leading bit lies more than FarBelow bits under the leading
\* bit of a double is less than a quarter of that double's last place.
FarBelow == 64

\* The sum of two values with the parts a and b.
AddParts(a, b) ==
    LET ha == BitLen(a.m) + a.e
        hb == BitLen(b.m) + b.e
        e == IntMin(a.e, b.e)
        ma == BShl(a.m, a.e - e)
        mb == BShl(b.m, b.e - e)
    IN  IF a.s = 0 \/ (b.s # 0 /\ hb - ha > FarBelow)
        THEN Round(b.s, b.m, b.e)
        ELSE IF b.s = 0 \/ ha - hb > FarBelow
        THEN Round(a.s, a.m, a.e)
        ELSE IF a.s = b.s THEN Round(a.s, BAdd(ma, mb), e)
        ELSE IF BCmp(ma, mb) >= 0 THEN Round(a.s, BSub(ma, mb), e)
        ELSE Round(b.s, BSub(mb, ma), e)

\* x + y for finite x and y.
AddFinite(x, y) ==
    IF IsSmall(x) /\ IsSmall(y)
    THEN Norm(x[1] * y[2] + y[1] * x[2], x[2] * y[2])
    ELSE AddParts(Parts(x), Parts(y))

\* inf + -inf is nan; an infinity absorbs every finite value.
AddDef(x, y) ==
    IF IsNaN(x) \/ IsNaN(y) THEN NaN
    ELSE IF ~IsFinite(x) /\ ~IsFinite(y) THEN (IF x = y THEN x ELSE NaN)
    ELSE IF ~IsFinite(x) THEN x
    ELSE IF ~IsFinite(y) THEN y
    ELSE AddFinite(x, y)

Neg(x) == IF Len(x) = 4 THEN [x EXCEPT ![1] = -x[1]] ELSE <<-x[1], x[2]>>

Sub(x, y) == Add(x, Neg(y))

\* The product of two values with the parts a and b.
MulParts(a, b) == Round(a.s * b.s, BMul(a.m, b.m), a.e + b.e)

\* inf * 0 is nan.
MulDef(x, y) ==
    IF IsNaN(x) \/ IsNaN(y) THEN NaN
    ELSE IF ~IsFinite(x) \/ ~IsFinite(y)
    THEN <<Sign(x[1]) * Sign(y[1]), 0>>
    ELSE IF IsSmall(x) /\ IsSmall(y) THEN Norm(x[1] * y[1], x[2] * y[2])
    ELSE MulParts(Parts(x), Parts(y))

\* The quotient of two values with the parts a and b, b not 0.
DivParts(a, b) == RoundQuot(a.s * b.s, a.m, b.m, a.e - b.e)

\* x / y: inf / inf is nan, a finite value over an infinity is 0, and x / 0
\* is an infinity of the sign of x (0 / 0 is nan).
DivDef(x, y) ==
    IF IsNaN(x) \/ IsNaN(y) THEN NaN
    ELSE IF ~IsFinite(x)
    THEN (IF ~IsFinite(y) THEN NaN
          ELSE <<x[1] * (IF y[1] < 0 THEN -1 ELSE 1), 0>>)
    ELSE IF ~IsFinite(y) THEN <<0, 1>>
    ELSE IF y[1] = 0 THEN <<Sign(x[1]), 0>>
    ELSE IF IsSmall(x) /\ IsSmall(y)
    THEN Norm(Sign(y[1]) * x[1] * y[2], x[2] * Abs(y[1]))
    ELSE DivParts(Parts(x), Parts(y))

\* Comparisons: every comparison with nan is false.
Lt(x, y) ==
    /\ ~IsNaN(x) /\ ~IsNaN(y)
    /\ IF ~IsFinite(x) \/ ~IsFinite(y)
       THEN (IF IsFinite(x) THEN 0 ELSE x[1]) < (IF IsFinite(y) THEN 0 ELSE y[1])
       ELSE Cmp(x, y) < 0
Le(x, y) ==
    /\ ~IsNaN(x) /\ ~IsNaN(y)
    /\ IF ~IsFinite(x) \/ ~IsFinite(y)
       THEN (IF IsFinite(x) THEN 0 ELSE x[1]) <= (IF IsFinite(y) THEN 0 ELSE y[1])
       ELSE Cmp(x, y) <= 0
Gt(x, y) == Lt(y, x)
Ge(x, y) == Le(y, x)
\* x == y on floats (nan == nan is false).
FEq(x, y) ==
    /\ ~IsNaN(x) /\ ~IsNaN(y)
    /\ \/ x = y
       \/ IsFinite(x) /\ IsFinite(y) /\ Cmp(x, y) = 0

FAbs(x) == IF Len(x) = 4 THEN [x EXCEPT ![1] = 1] ELSE <<Abs(x[1]), x[2]>>

\* Python's builtin max(a, b) and min(a, b): the first argument is kept
\* unless the second compares strictly beyond it.
PyMax(a, b) == IF Gt(b, a) THEN b ELSE a
PyMin(a, b) == IF Lt(b, a) THEN b ELSE a

\* float(int(x)) for a finite float: truncation toward zero.
TruncParts(a) ==
    IF a.e >= 0 THEN Round(a.s, a.m, a.e) ELSE Round(a.s, BShr(a.m, -a.e), 0)

TruncDef(x) ==
    IF IsSmall(x) THEN <<Sign(x[1]) * (Abs(x[1]) \div x[2]), 1>>
    ELSE TruncParts(Parts(x))

\* int(x) raises OverflowError for an infinity and ValueError for nan.
TruncIntError(x) ==
    IF IsNaN(x) THEN "ValueError"
    ELSE IF ~IsFinite(x) THEN "OverflowError"
    ELSE NoneStr

\* Truthiness of a float: 0.0 is falsy, everything else (nan too) is truthy.
Truthy(x) == IsNaN(x) \/ x[1] # 0

----------------------------------------------------------------------------
(***************************************************************************)
(* indicators.py                                                           *)
(* Arrays are sequences; the code's index i is the model's index i + 1.    *)
(***************************************************************************)

\* tr[i] for the 0-based index i (lines 17-23).
TrueRange(high, low, close, i) ==
    IF i = 0 THEN Sub(high[1], low[1])
    ELSE PyMax(PyMax(Sub(high[i + 1], low[i + 1]),
                     FAbs(Sub(high[i + 1], close[i]))),
               FAbs(Sub(low[i + 1], close[i])))

RECURSIVE SumFrom(_, _, _, _, _)
\* acc + s[i] + s[i + stride] + ..., over the indices up to hi, added in
\* that order.
SumFrom(s, acc, i, stride, hi) ==
    IF i > hi THEN acc
    ELSE SumFrom(s, Add(acc, s[i]), i + stride, stride, hi)

\* Sizes at which numpy's sum changes its order of additions: below Unroll
\* entries it adds one by one, up to BlockSize it keeps Unroll running sums,
\* beyond it halves the array.
Unroll == 8
BlockSize == 128

RECURSIVE PairwiseSum(_, _, _)
\* The sum np.mean takes (line 29) of the n entries of s after the first
\* lo, in numpy's order of additions.
PairwiseSum(s, lo, n) ==
    IF n < Unroll THEN SumFrom(s, Q(0), lo + 1, 1, lo + n)
    ELSE IF n <= BlockSize THEN
        LET whole == n - (n % Unroll)
            r == [j \in 1..Unroll |->
                     SumFrom(s, s[lo + j], lo + j + Unroll, Unroll, lo + whole)]
            res == Add(Add(Add(r[1], r[2]), Add(r[3], r[4])),
                       Add(Add(r[5], r[6]), Add(r[7], r[8])))
        IN  SumFrom(s, res, lo + whole + 1, 1, lo + n)
    ELSE
        LET half == (n \div 2) - ((n \div 2) % Unroll)
        IN  Add(PairwiseSum(s, lo, half), PairwiseSum(s, lo + half, n - half))

\* np.mean of the first k entries of s.
Mean(s, k) == Div(PairwiseSum(s, 0, k), Q(k))

RECURSIVE WilderFrom_EqualWeights(_, _, _, _)
\* The loop with the previous ATR and the new true range weighted equally.
WilderFrom_EqualWeights(tr, atr, i, period) ==
    IF i >= Len(tr) THEN atr
    ELSE WilderFrom_EqualWeights(tr,
                    Append(atr, Div(Add(atr[i], tr[i + 1]), Q(2))),
                    i + 1, period)

RECURSIVE WilderFrom(_, _, _, _)
\* The loop of lines 30-31: atr holds the entries of the indices < i.
WilderFrom(tr, atr, i, period) ==
    IF i >= Len(tr) THEN atr
    ELSE WilderFrom(tr,
                    Append(atr, Div(Add(Mul(atr[i], Q(period - 1)), tr[i + 1]),
                                    Q(period))),
                    i + 1, period)

\* wilder_atr raises IndexError at line 17 (tr[0] = high[0] - low[0]) when
\* the arrays are empty.
wilder_atr_raises(high, low, close, period) == Len(close) = 0

\* wilder_atr on arrays of length n >= 1: the atr array.
wilder_atr(high, low, close, period) ==
    LET n == Len(close)
        tr == [i \in 1..n |-> TrueRange(high, low, close, i - 1)]
    IN  IF n < period THEN [i \in 1..n |-> NaN]
        ELSE WilderFrom(tr,
                        [i \in 1..period |->
                            IF i < period THEN NaN
                            ELSE Mean(tr, period)],
                        period, period)

\* The loop body with the direction reset to 0, not propagated, where the
\* ATR is undefined or not positive.
SupertrendStep_NoPropagation(b, close, atr, i) ==
    LET k == i + 1
    IN  IF IsNaN(atr[k]) \/ Le(atr[k], Q(0))
        THEN [b EXCEPT !.st[k] = IF ~IsNaN(b.st[k - 1]) THEN b.st[k - 1]
                                  ELSE close[k],
                       !.direction[k] = 0]
        ELSE
          LET ub == IF Le(close[k - 1], b.upper_band[k - 1])
                    THEN PyMin(b.upper_band[k], b.upper_band[k - 1])
                    ELSE b.upper_band[k]
              lb == IF Ge(close[k - 1], b.lower_band[k - 1])
                    THEN PyMax(b.lower_band[k], b.lower_band[k - 1])
                    ELSE b.lower_band[k]
              dir == IF i = 1 THEN 1
                     ELSE IF ~IsNaN(b.st[k - 1])
                             /\ FEq(b.st[k - 1], b.upper_band[k - 1])
                          THEN (IF Gt(close[k], ub) THEN -1 ELSE 1)
                          ELSE (IF Lt(close[k], lb) THEN 1 ELSE -1)
          IN  [upper_band |-> [b.upper_band EXCEPT ![k] = ub],
               lower_band |-> [b.lower_band EXCEPT ![k] = lb],
               st |-> [b.st EXCEPT ![k] = IF dir > 0 THEN lb ELSE ub],
               direction |-> [b.direction EXCEPT ![k] = dir]]

\* The loop body with the textbook rule: the direction is kept while the
\* close stays within the active band and changes when the close breaks it.
SupertrendStep_Textbook(b, close, atr, i) ==
    LET k == i + 1
    IN  IF IsNaN(atr[k]) \/ Le(atr[k], Q(0))
        THEN [b EXCEPT !.st[k] = IF ~IsNaN(b.st[k - 1]) THEN b.st[k - 1]
                                  ELSE close[k],
                       !.direction[k] = b.direction[k - 1]]
        ELSE
          LET ub == IF Le(close[k - 1], b.upper_band[k - 1])
                    THEN PyMin(b.upper_band[k], b.upper_band[k - 1])
                    ELSE b.upper_band[k]
              lb == IF Ge(close[k - 1], b.lower_band[k - 1])
                    THEN PyMax(b.lower_band[k], b.lower_band[k - 1])
                    ELSE b.lower_band[k]
              dir == IF i = 1 THEN 1
                     ELSE IF ~IsNaN(b.st[k - 1])
                             /\ FEq(b.st[k - 1], b.upper_band[k - 1])
                          THEN (IF Gt(close[k], ub) THEN 1 ELSE -1)
                          ELSE (IF Lt(close[k], lb) THEN -1 ELSE 1)
          IN  [upper_band |-> [b.upper_band EXCEPT ![k] = ub],
               lower_band |-> [b.lower_band EXCEPT ![k] = lb],
               st |-> [b.st EXCEPT ![k] = IF dir > 0 THEN lb ELSE ub],
               direction |-> [b.direction EXCEPT ![k] = dir]]

\* One pass of the loop body of supertrend for the 0-based index i (lines
\* 57-74); b carries upper_band, lower_band, st and direction.
SupertrendStep(b, close, atr, i) ==
    LET k == i + 1
    IN  IF IsNaN(atr[k]) \/ Le(atr[k], Q(0))
        THEN [b EXCEPT !.st[k] = IF ~IsNaN(b.st[k - 1]) THEN b.st[k - 1]
                                  ELSE close[k],
                       !.direction[k] = b.direction[k - 1]]
        ELSE
          LET ub == IF Le(close[k - 1], b.upper_band[k - 1])
                    THEN PyMin(b.upper_band[k], b.upper_band[k - 1])
                    ELSE b.upper_band[k]
              lb == IF Ge(close[k - 1], b.lower_band[k - 1])
                    THEN PyMax(b.lower_band[k], b.lower_band[k - 1])
                    ELSE b.lower_band[k]
              dir == IF i = 1 THEN 1
                     ELSE IF ~IsNaN(b.st[k - 1])
                             /\ FEq(b.st[k - 1], b.upper_band[k - 1])
                          THEN (IF Gt(close[k], ub) THEN -1 ELSE 1)
                          ELSE (IF Lt(close[k], lb) THEN 1 ELSE -1)
          IN  [upper_band |-> [b.upper_band EXCEPT ![k] = ub],
               lower_band |-> [b.lower_band EXCEPT ![k] = lb],
               st |-> [b.st EXCEPT ![k] = IF dir > 0 THEN lb ELSE ub],
               direction |-> [b.direction EXCEPT ![k] = dir]]

RECURSIVE SupertrendLoop(_, _, _, _)
\* for i in range(1, n)
SupertrendLoop(b, close, atr, i) ==
    IF i >= Len(close) THEN b
    ELSE SupertrendLoop(SupertrendStep(b, close, atr, i), close, atr, i + 1)

\* supertrend: [st, direction] (with the bands, which the code discards).
supertrend(high, low, close, atr, factor) ==
    LET n == Len(close)
        hl_avg == [i \in 1..n |-> Div(Add(high[i], low[i]), Q(2))]
        b0 == [upper_band |-> [i \in 1..n |-> Add(hl_avg[i], Mul(factor, atr[i]))],
               lower_band |-> [i \in 1..n |-> Sub(hl_avg[i], Mul(factor, atr[i]))],
               st |-> [i \in 1..n |-> NaN],
               direction |-> [i \in 1..n |-> 0]]
    IN  SupertrendLoop(b0, close, atr, 1)

RECURSIVE Insert(_, _)
\* s sorted ascending, with x put in its place.
Insert(s, x) ==
    IF s = <<>> THEN <<x>>
    ELSE IF Le(x, Head(s)) THEN <<x>> \o s
    ELSE <<Head(s)>> \o Insert(Tail(s), x)

RECURSIVE SortAsc(_)
SortAsc(s) == IF s = <<>> THEN <<>> ELSE Insert(SortAsc(Tail(s)), Head(s))

\* np.nanmedian of a window without nan: the middle value, or the mean of
\* the two middle values (their sum over 2, nan for -inf and +inf); nan for
\* an empty window.
Median(s) ==
    LET t == SortAsc(s)
        m == Len(t)
    IN  IF m = 0 THEN NaN
        ELSE IF m % 2 = 1 THEN t[(m + 1) \div 2]
        ELSE Div(Add(t[m \div 2], t[m \div 2 + 1]), Q(2))

\* atr[idx - window : idx], empty when the slice bounds cross.
MedianWindow(atr, idx, window) ==
    [j \in 1..IntMax(0, window) |-> atr[idx - window + j]]

\* atr_above_median with >= in place of >.
atr_above_median_NotStrict(atr, idx, window) ==
    IF idx < window \/ \E j \in (idx - window)..idx : IsNaN(atr[j + 1])
    THEN TRUE
    ELSE LET median_val == Median(MedianWindow(atr, idx, window))
         IN  IF IsNaN(median_val) THEN TRUE
             ELSE Ge(atr[idx + 1], median_val)

\* atr_above_median, for the 0-based index idx.  A median that is nan (an
\* empty window, or -inf and +inf in the middle of an even one) gives True
\* (line 84).
atr_above_median(atr, idx, window) ==
    IF idx < window \/ \E j \in (idx - window)..idx : IsNaN(atr[j + 1])
    THEN TRUE
    ELSE LET median_val == Median(MedianWindow(atr, idx, window))
         IN  IF IsNaN(median_val) THEN TRUE
             ELSE Gt(atr[idx + 1], median_val)

----------------------------------------------------------------------------
(***************************************************************************)
(* signals.py                                                              *)
(***************************************************************************)

\* detect_flip, for the 0-based index idx: "LONG", "SHORT" or None.
detect_flip(direction, idx) ==
    IF idx < 1 THEN NoneStr
    ELSE LET prev == direction[idx]
             curr == direction[idx + 1]
         IN  IF prev = -1 /\ curr = 1 THEN "LONG"
             ELSE IF prev = 1 /\ curr = -1 THEN "SHORT"
             ELSE NoneStr

\* The exit predicates of check_exit, one per reason (lines 46-62).
StopHit(state, high, low) ==
    IF state.position_side = "LONG" THEN Le(low, state.stop_loss)
    ELSE Ge(high, state.stop_loss)

TpHit(state, high, low) ==
    IF state.position_side = "LONG" THEN Ge(high, state.take_profit)
    ELSE Le(low, state.take_profit)

TrailingHit(state, high, low) ==
    /\ state.trailing_stop # None
    /\ IF state.position_side = "LONG" THEN Le(low, state.trailing_stop)
       ELSE Ge(high, state.trailing_stop)

\* The time test one bar late.
TimeUp_OneBarLate(state, config_max_bars) ==
    state.bars_in_trade > config_max_bars

TimeUp(state, config_max_bars) == state.bars_in_trade >= config_max_bars

\* check_exit with the take-profit tested before the stop.
check_exit_TpFirst(state, high, low, close, atr, config_tp_rr, config_tsl_mult, config_max_bars) ==
    IF state.position_side = "FLAT" THEN NoneStr
    ELSE IF TpHit(state, high, low) THEN "tp_hit"
    ELSE IF StopHit(state, high, low) THEN "stop_hit"
    ELSE IF TrailingHit(state, high, low) THEN "trailing_stop"
    ELSE IF TimeUp(state, config_max_bars) THEN "time_exit"
    ELSE NoneStr

\* check_exit with the trailing stop tested before the stop.
check_exit_TrailingFirst(state, high, low, close, atr, config_tp_rr, config_tsl_mult, config_max_bars) ==
    IF state.position_side = "FLAT" THEN NoneStr
    ELSE IF TrailingHit(state, high, low) THEN "trailing_stop"
    ELSE IF StopHit(state, high, low) THEN "stop_hit"
    ELSE IF TpHit(state, high, low) THEN "tp_hit"
    ELSE IF TimeUp(state, config_max_bars) THEN "time_exit"
    ELSE NoneStr

\* check_exit: the exit reason, or None.
check_exit(state, high, low, close, atr, config_tp_rr, config_tsl_mult, config_max_bars) ==
    IF state.position_side = "FLAT" THEN NoneStr
    ELSE IF StopHit(state, high, low) THEN "stop_hit"
    ELSE IF TpHit(state, high, low) THEN "tp_hit"
    ELSE IF TrailingHit(state, high, low) THEN "trailing_stop"
    ELSE IF TimeUp(state, config_max_bars) THEN "time_exit"
    ELSE NoneStr

\* abs(entry_price - initial_stop), with the fallback of line 81.
StopDistance(state) ==
    LET initial_stop == IF Truthy(state.initial_stop_loss)
                        THEN state.initial_stop_loss
                        ELSE state.stop_loss
    IN  FAbs(Sub(state.entry_price, initial_stop))

\* update_trailing without the ratchet: an active trailing stop takes the
\* candidate level of the bar as it is.
update_trailing_NoClamp(state, high, low, atr, tsl_mult) ==
    IF state.position_side = "FLAT" THEN None
    ELSE IF state.position_side = "LONG" THEN
        LET extreme == PyMax(state.extreme_price, high)
            active == Ge(extreme, Add(state.entry_price, StopDistance(state)))
            new_tsl == Sub(extreme, Mul(tsl_mult, atr))
        IN  IF state.trailing_stop = None
            THEN (IF active THEN PyMax(state.stop_loss, new_tsl) ELSE None)
            ELSE (IF active THEN new_tsl ELSE state.trailing_stop)
    ELSE
        LET extreme == PyMin(state.extreme_price, low)
            active == Le(extreme, Sub(state.entry_price, StopDistance(state)))
            new_tsl == Add(extreme, Mul(tsl_mult, atr))
        IN  IF state.trailing_stop = None
            THEN (IF active THEN PyMin(state.stop_loss, new_tsl) ELSE None)
            ELSE (IF active THEN new_tsl ELSE state.trailing_stop)

\* update_trailing activating only strictly beyond 1R.
update_trailing_StrictActivation(state, high, low, atr, tsl_mult) ==
    IF state.position_side = "FLAT" THEN None
    ELSE IF state.position_side = "LONG" THEN
        LET extreme == PyMax(state.extreme_price, high)
            active == Gt(extreme, Add(state.entry_price, StopDistance(state)))
            new_tsl == Sub(extreme, Mul(tsl_mult, atr))
        IN  IF state.trailing_stop = None
            THEN (IF active THEN PyMax(state.stop_loss, new_tsl) ELSE None)
            ELSE (IF active THEN PyMax(state.trailing_stop, new_tsl)
                  ELSE state.trailing_stop)
    ELSE
        LET extreme == PyMin(state.extreme_price, low)
            active == Lt(extreme, Sub(state.entry_price, StopDistance(state)))
            new_tsl == Add(extreme, Mul(tsl_mult, atr))
        IN  IF state.trailing_stop = None
            THEN (IF active THEN PyMin(state.stop_loss, new_tsl) ELSE None)
            ELSE (IF active THEN PyMin(state.trailing_stop, new_tsl)
                  ELSE state.trailing_stop)

\* update_trailing with the first trailing level taken as it is, not
\* clamped by stop_loss.
update_trailing_UnclampedActivation(state, high, low, atr, tsl_mult) ==
    IF state.position_side = "FLAT" THEN None
    ELSE IF state.position_side = "LONG" THEN
        LET extreme == PyMax(state.extreme_price, high)
            active == Ge(extreme, Add(state.entry_price, StopDistance(state)))
            new_tsl == Sub(extreme, Mul(tsl_mult, atr))
        IN  IF state.trailing_stop = None
            THEN (IF active THEN new_tsl ELSE None)
            ELSE (IF active THEN PyMax(state.trailing_stop, new_tsl)
                  ELSE state.trailing_stop)
    ELSE
        LET extreme == PyMin(state.extreme_price, low)
            active == Le(extreme, Sub(state.entry_price, StopDistance(state)))
            new_tsl == Add(extreme, Mul(tsl_mult, atr))
        IN  IF state.trailing_stop = None
            THEN (IF active THEN new_tsl ELSE None)
            ELSE (IF active THEN PyMin(state.trailing_stop, new_tsl)
                  ELSE state.trailing_stop)

\* update_trailing: the new trailing level, or None.
update_trailing(state, high, low, atr, tsl_mult) ==
    IF state.position_side = "FLAT" THEN None
    ELSE IF state.position_side = "LONG" THEN
        LET extreme == PyMax(state.extreme_price, high)
            active == Ge(extreme, Add(state.entry_price, StopDistance(state)))
            new_tsl == Sub(extreme, Mul(tsl_mult, atr))
        IN  IF state.trailing_stop = None
            THEN (IF active THEN PyMax(state.stop_loss, new_tsl) ELSE None)
            ELSE (IF active THEN PyMax(state.trailing_stop, new_tsl)
                  ELSE state.trailing_stop)
    ELSE
        LET extreme == PyMin(state.extreme_price, low)
            active == Le(extreme, Sub(state.entry_price, StopDistance(state)))
            new_tsl == Add(extreme, Mul(tsl_mult, atr))
        IN  IF state.trailing_stop = None
            THEN (IF active THEN PyMin(state.stop_loss, new_tsl) ELSE None)
            ELSE (IF active THEN PyMin(state.trailing_stop, new_tsl)
                  ELSE state.trailing_stop)

----------------------------------------------------------------------------
(***************************************************************************)
(* risk.py                                                                 *)
(***************************************************************************)

\* What position_size hands back: the pair (quantity, leverage), or the
\* exception that int() raised.
Sized(quantity, leverage) ==
    [error |-> NoneStr, quantity |-> quantity, leverage |-> leverage]
SizingRaised(error, leverage) ==
    [error |-> error, quantity |-> NaN, leverage |-> leverage]

\* position_size without the rounding down to the step.
position_size_NoRounding(balance, margin_pct, entry_price, leverage, min_qty, quantity_step) ==
    IF Le(balance, Q(0)) \/ Le(entry_price, Q(0)) \/ Le(margin_pct, Q(0))
    THEN Sized(Q(0), leverage)
    ELSE
        LET raw_qty == Div(Mul(Mul(balance, margin_pct), Q(leverage)),
                           entry_price)
        IN  IF Lt(raw_qty, min_qty) THEN Sized(Q(0), leverage)
            ELSE Sized(raw_qty, leverage)

\* position_size.
position_size(balance, margin_pct, entry_price, leverage, min_qty, quantity_step) ==
    IF Le(balance, Q(0)) \/ Le(entry_price, Q(0)) \/ Le(margin_pct, Q(0))
    THEN Sized(Q(0), leverage)
    ELSE
        LET margin == Mul(balance, margin_pct)
            raw_qty == Div(Mul(margin, Q(leverage)), entry_price)
            steps == Div(raw_qty, quantity_step)
            quantity == IF Gt(quantity_step, Q(0))
                        THEN Mul(Trunc(steps), quantity_step)
                        ELSE raw_qty
        IN  IF Gt(quantity_step, Q(0)) /\ TruncIntError(steps) # NoneStr
            THEN SizingRaised(TruncIntError(steps), leverage)
            ELSE IF Lt(quantity, min_qty) THEN Sized(Q(0), leverage)
            ELSE Sized(quantity, leverage)

compute_leverage(base_leverage, leverage_min, leverage_max) ==
    IntMax(leverage_min, IntMin(leverage_max, base_leverage))

----------------------------------------------------------------------------
(***************************************************************************)
(* state.py                                                                *)
(***************************************************************************)

\* TradeState(...); initial_stop_loss defaults to 0.0.
TradeState(side, entry, stop, tp, tsl, bars, extreme, initial) ==
    [position_side |-> side, entry_price |-> entry, stop_loss |-> stop,
     take_profit |-> tp, trailing_stop |-> tsl, bars_in_trade |-> bars,
     extreme_price |-> extreme, initial_stop_loss |-> initial]

\* TradeState.flat()
flat == TradeState("FLAT", Q(0), Q(0), Q(0), None, 0, Q(0), Q(0))

----------------------------------------------------------------------------
(***************************************************************************)
(* engine.py                                                               *)
(* A candle is a record [open, high, low, close, volume]; open and volume  *)
(* are converted by _to_arrays and never read afterwards.                  *)
(***************************************************************************)

\* A StrategyOutput; proposed_position is None or <<ProposedPosition>>.
Output(signal, reason, proposed) ==
    [signal |-> signal, reason |-> reason, proposed_position |-> proposed]

\* What the model records when the call raises instead of returning.
Raised(exception) == Output("RAISE", exception, None)

\* _to_arrays: the h, l, c arrays.
to_arrays(ohlcv) ==
    [h |-> [i \in 1..Len(ohlcv) |-> ohlcv[i].high],
     l |-> [i \in 1..Len(ohlcv) |-> ohlcv[i].low],
     c |-> [i \in 1..Len(ohlcv) |-> ohlcv[i].close]]

\* The literal 0.001 of lines 67-70: the double nearest to 1/1000,
\* 0x1.0624dd2f1a9fcp-10 = 1152921504606847 * 2^-60 (FromRatio(1, 1000)).
DefaultStep == <<1, 1, <<10879, 4849, 2359, 262>>, -60>>

\* contract_specs.get(key, 0.001)
SpecGet(contract_specs, key) ==
    IF key \in DOMAIN contract_specs THEN contract_specs[key] ELSE DefaultStep

\* quantity_step after lines 68-70.
QuantityStep(contract_specs) ==
    LET quantity_step == SpecGet(contract_specs, "quantity_step")
    IN  IF Le(quantity_step, Q(0)) THEN DefaultStep ELSE quantity_step

\* The guard of line 72 one candle short.
InsufficientData_OffByOne(n, config) == n < config.atr_period

\* The guard of line 72.
InsufficientData(n, config) == n < config.atr_period + 1

\* The guard of line 85 without the test for a non-positive ATR.
InvalidAtr_NanOnly(atr_val) == IsNaN(atr_val)

\* The guard of line 85.
InvalidAtr(atr_val) == IsNaN(atr_val) \/ Le(atr_val, Q(0))

\* new_extreme of lines 93-99.
NewExtreme(prev_state, high_val, low_val) ==
    IF FEq(prev_state.extreme_price, Q(0))
    THEN (IF prev_state.position_side = "LONG" THEN high_val ELSE low_val)
    ELSE IF prev_state.position_side = "LONG"
         THEN PyMax(prev_state.extreme_price, high_val)
         ELSE PyMin(prev_state.extreme_price, low_val)

\* state_with_extreme of lines 101-109: initial_stop_loss is not passed on
\* and takes its default.
StateWithExtreme(prev_state, high_val, low_val) ==
    TradeState(prev_state.position_side, prev_state.entry_price,
               prev_state.stop_loss, prev_state.take_profit,
               prev_state.trailing_stop, prev_state.bars_in_trade + 1,
               NewExtreme(prev_state, high_val, low_val), Q(0))

\* The decision for an open position with the trailing level recomputed
\* first and the exits evaluated against the new level.
OpenDecision_TrailFirst(prev_state, high_val, low_val, close_val, atr_val, config) ==
    LET in_flight == StateWithExtreme(prev_state, high_val, low_val)
        tsl == update_trailing(in_flight, high_val, low_val, atr_val,
                               config.tsl_atr_mult)
        trailed == IF tsl = None THEN in_flight
                   ELSE [in_flight EXCEPT !.stop_loss = tsl,
                                          !.trailing_stop = tsl]
        exit_reason == check_exit(trailed, high_val, low_val, close_val,
                                  atr_val, config.tp_rr, config.tsl_atr_mult,
                                  config.max_bars_in_trade)
    IN  IF exit_reason # NoneStr THEN Output("EXIT", exit_reason, None)
        ELSE Output("HOLD", "position_open", None)

\* Lines 92-134: the decision for an open position.
OpenDecision(prev_state, high_val, low_val, close_val, atr_val, config) ==
    LET exit_reason == check_exit(StateWithExtreme(prev_state, high_val, low_val),
                                  high_val, low_val, close_val, atr_val,
                                  config.tp_rr, config.tsl_atr_mult,
                                  config.max_bars_in_trade)
    IN  IF exit_reason # NoneStr THEN Output("EXIT", exit_reason, None)
        ELSE Output("HOLD", "position_open", None)

\* The proposal still attached when the quantity is 0.
Proposal_KeptOnHold(flip, close_val, atr_val, account_equity, min_qty, quantity_step, config) ==
    LET entry_price == close_val
        stop_distance == Mul(config.risk_atr_mult, atr_val)
        stop_loss == IF flip = "LONG" THEN Sub(entry_price, stop_distance)
                     ELSE Add(entry_price, stop_distance)
        take_profit == IF flip = "LONG"
                       THEN Add(entry_price, Mul(stop_distance, config.tp_rr))
                       ELSE Sub(entry_price, Mul(stop_distance, config.tp_rr))
        leverage == compute_leverage(config.leverage, config.leverage_min,
                                     config.leverage_max)
        sized == position_size(account_equity, config.margin_pct, entry_price,
                               leverage, min_qty, quantity_step)
        proposed == <<[side |-> flip, quantity |-> sized.quantity,
                       leverage |-> sized.leverage,
                       entry_price |-> entry_price,
                       stop_loss |-> stop_loss, take_profit |-> take_profit]>>
    IN  IF sized.error # NoneStr THEN Raised(sized.error)
        ELSE IF Le(sized.quantity, Q(0))
        THEN Output("HOLD", "below_min_qty", proposed)
        ELSE Output(flip, "supertrend_flip", proposed)

\* Lines 143-177: levels, sizing and the proposal for a detected flip.
Proposal(flip, close_val, atr_val, account_equity, min_qty, quantity_step, config) ==
    LET entry_price == close_val
        stop_distance == Mul(config.risk_atr_mult, atr_val)
        stop_loss == IF flip = "LONG" THEN Sub(entry_price, stop_distance)
                     ELSE Add(entry_price, stop_distance)
        take_profit == IF flip = "LONG"
                       THEN Add(entry_price, Mul(stop_distance, config.tp_rr))
                       ELSE Sub(entry_price, Mul(stop_distance, config.tp_rr))
        leverage == compute_leverage(config.leverage, config.leverage_min,
                                     config.leverage_max)
        sized == position_size(account_equity, config.margin_pct, entry_price,
                               leverage, min_qty, quantity_step)
    IN  IF sized.error # NoneStr THEN Raised(sized.error)
        ELSE IF Le(sized.quantity, Q(0))
        THEN Output("HOLD", "below_min_qty", None)
        ELSE Output(flip, "supertrend_flip",
                    <<[side |-> flip, quantity |-> sized.quantity,
                       leverage |-> sized.leverage,
                       entry_price |-> entry_price,
                       stop_loss |-> stop_loss, take_profit |-> take_profit]>>)

\* The decision for a FLAT state with the sizing gate ahead of the
\* volatility filter.
FlatDecision_SizingFirst(ind, atr, idx, close_val, atr_val, account_equity, min_qty, quantity_step, config) ==
    LET flip == detect_flip(ind.direction, idx)
        sized == Proposal(flip, close_val, atr_val, account_equity, min_qty,
                          quantity_step, config)
    IN  IF flip = NoneStr THEN Output("HOLD", "no_flip", None)
        ELSE IF sized.signal \in {"HOLD", "RAISE"} THEN sized
        ELSE IF config.volatility_filter_enabled
                /\ ~atr_above_median(atr, idx, config.volatility_median_window)
        THEN Output("HOLD", "volatility_filter", None)
        ELSE sized

\* Lines 136-177: the decision for a FLAT state.
FlatDecision(ind, atr, idx, close_val, atr_val, account_equity, min_qty, quantity_step, config) ==
    LET flip == detect_flip(ind.direction, idx)
    IN  IF flip = NoneStr THEN Output("HOLD", "no_flip", None)
        ELSE IF config.volatility_filter_enabled
                /\ ~atr_above_median(atr, idx, config.volatility_median_window)
        THEN Output("HOLD", "volatility_filter", None)
        ELSE Proposal(flip, close_val, atr_val, account_equity, min_qty,
                      quantity_step, config)

\* The decision with a reverse-on-flip mode: an open position facing an
\* opposite flip is handed to the entry path.
Decide_ReverseOnFlip(a, account_equity, min_qty, quantity_step, prev_state, config) ==
    LET n == Len(a.c)
        idx == n - 1
        atr == wilder_atr(a.h, a.l, a.c, config.atr_period)
        ind == supertrend(a.h, a.l, a.c, atr, config.supertrend_factor)
        atr_val == atr[idx + 1]
        flip == detect_flip(ind.direction, idx)
    IN  IF InvalidAtr(atr_val) THEN Output("HOLD", "invalid_atr", None)
        ELSE IF prev_state.position_side # "FLAT"
                /\ ~(flip # NoneStr /\ flip # prev_state.position_side)
        THEN OpenDecision(prev_state, a.h[idx + 1], a.l[idx + 1], a.c[idx + 1],
                          atr_val, config)
        ELSE FlatDecision(ind, atr, idx, a.c[idx + 1], atr_val, account_equity,
                          min_qty, quantity_step, config)

\* Lines 79-177: the decision once the series is long enough.
Decide(a, account_equity, min_qty, quantity_step, prev_state, config) ==
    LET n == Len(a.c)
        idx == n - 1
        atr == wilder_atr(a.h, a.l, a.c, config.atr_period)
        ind == supertrend(a.h, a.l, a.c, atr, config.supertrend_factor)
        atr_val == atr[idx + 1]
    IN  IF InvalidAtr(atr_val) THEN Output("HOLD", "invalid_atr", None)
        ELSE IF prev_state.position_side # "FLAT"
        THEN OpenDecision(prev_state, a.h[idx + 1], a.l[idx + 1], a.c[idx + 1],
                          atr_val, config)
        ELSE FlatDecision(ind, atr, idx, a.c[idx + 1], atr_val, account_equity,
                          min_qty, quantity_step, config)

\* process_candle.
process_candle(ohlcv, account_equity, contract_specs, prev_state, config) ==
    LET a == to_arrays(ohlcv)
        n == Len(a.c)
        min_qty == SpecGet(contract_specs, "min_quantity")
        quantity_step == QuantityStep(contract_specs)
    IN  IF InsufficientData(n, config)
        THEN Output("HOLD", "insufficient_data", None)
        ELSE IF wilder_atr_raises(a.h, a.l, a.c, config.atr_period)
        THEN Raised("IndexError")
        ELSE Decide(a, account_equity, min_qty, quantity_step, prev_state,
                    config)

----------------------------------------------------------------------------
(***************************************************************************)
(* The transitions of the TradeState the caller keeps.                     *)
(***************************************************************************)
\* FLAT -> LONG/SHORT: the state built from a proposal; the entry bar is the
\* last candle.  keep says whether the caller records initial_stop_loss.
Entered(p, candle, keep) ==
    TradeState(p.side, p.entry_price, p.stop_loss, p.take_profit, None, 0,
               IF p.side = "LONG" THEN candle.high ELSE candle.low,
               IF keep THEN p.stop_loss ELSE Q(0))

\* LONG/SHORT -> LONG/SHORT on HOLD/position_open: bars_in_trade and the
\* extreme move on, and both stops take update_trailing's level when it
\* returns one.
Held(s, candle, atr_val, cfg) ==
    LET in_flight == [StateWithExtreme(s, candle.high, candle.low)
                        EXCEPT !.initial_stop_loss = s.initial_stop_loss]
        tsl == update_trailing(in_flight, candle.high, candle.low, atr_val,
                               cfg.tsl_atr_mult)
    IN  IF tsl = None THEN in_flight
        ELSE [in_flight EXCEPT !.stop_loss = tsl, !.trailing_stop = tsl]

\* ATR at the last index, as the caller recomputes it.
LastAtr(candles, cfg) ==
    LET a == to_arrays(candles)
    IN  wilder_atr(a.h, a.l, a.c, cfg.atr_period)[Len(candles)]

\* The successor states the caller may keep after a call.
Successors(s, out, candles, cfg) ==
    IF out.signal \in {"LONG", "SHORT"}
    THEN {Entered(out.proposed_position[1], candles[Len(candles)], keep) :
            keep \in BOOLEAN}
    ELSE IF out.signal = "EXIT" THEN {flat}
    ELSE IF out.signal = "HOLD" /\ out.reason = "position_open"
    THEN {Held(s, candles[Len(candles)], LastAtr(candles, cfg), cfg)}
    ELSE {s}

----------------------------------------------------------------------------
Apply(fn, p) ==
    CASE fn = "Cmp" -> CmpDef(p[1], p[2])
      [] fn = "Add" -> AddDef(p[1], p[2])
      [] fn = "Mul" -> MulDef(p[1], p[2])
      [] fn = "Div" -> DivDef(p[1], p[2])
      [] fn = "Round" -> RoundDef(p[1], p[2], p[3])
      [] fn = "RoundQuot" -> RoundQuotDef(p[1], p[2], p[3], p[4])
      [] fn = "BDivMod" -> BDivModDef(p[1], p[2])
      [] fn = "Trunc" -> TruncDef(p[1])
      [] fn = "process_candle" -> process_candle(p[1], p[2], p[3], p[4], p[5])
      [] fn = "Successors" -> Successors(p[1], p[2], p[3], p[4])
      [] fn = "update_trailing" -> update_trailing(p[1], p[2], p[3], p[4], p[5])
      [] fn = "check_exit" ->
            check_exit(p[1], p[2], p[3], p[4], p[5], p[6], p[7], p[8])
      [] fn = "wilder_atr" -> wilder_atr(p[1], p[2], p[3], p[4])
      [] fn = "supertrend" -> supertrend(p[1], p[2], p[3], p[4], p[5])
      [] fn = "atr_above_median" -> atr_above_median(p[1], p[2], p[3])
      [] fn = "StateWithExtreme" -> StateWithExtreme(p[1], p[2], p[3])
      [] fn = "Held" -> Held(p[1], p[2], p[3], p[4])

----------------------------------------------------------------------------
(***************************************************************************)
(* The inputs the model draws.                                             *)
(***************************************************************************)
\* A candle [open, high, low, close, volume] of whole prices; open is taken
\* equal to close and volume is 0.
Candle(l, c, h) ==
    [open |-> Q(c), high |-> Q(h), low |-> Q(l), close |-> Q(c),
     volume |-> Q(0)]

\* Well-formed candles (low <= close <= high): a still one, a wide one, a
\* rising one and a falling one.
Candles == {Candle(10, 10, 10), Candle(8, 10, 12), Candle(10, 12, 12),
            Candle(8, 8, 10)}

\* A StrategyConfig that meets the constraints of the data model.
StrategyConfig(period, max_bars, filter, window, tsl_mult) ==
    [atr_period |-> period, supertrend_factor |-> Q(1),
     risk_atr_mult |-> <<1, 2>>, tsl_atr_mult |-> tsl_mult, tp_rr |-> Q(2),
     margin_pct |-> <<1, 2>>, leverage_min |-> 1, leverage_max |-> 3,
     leverage |-> 2, max_bars_in_trade |-> max_bars,
     time_exit_flat_r |-> <<1, 2>>, volatility_filter_enabled |-> filter,
     volatility_median_window |-> window, flip_confirm_atr_pct |-> <<3, 20>>]

\* The second trails wider than one ATR, so that a bar can stay inside the
\* trailing stop while the ATR rises.
Configs ==
    {StrategyConfig(2, 2, TRUE, 2, <<1, 2>>),
     StrategyConfig(2, 3, FALSE, 2, Q(2)),
     StrategyConfig(3, 1, FALSE, 2, <<1, 2>>)}

\* <<account_equity, contract_specs>>: default specs (a missing key, a
\* non-positive step), explicit specs, an empty account, and an equity
\* beyond every finite value.
Accounts ==
    {<<Q(100), [quantity_step |-> Q(0)]>>,
     <<Q(100), [min_quantity |-> Q(12), quantity_step |-> Q(1)]>>,
     <<Q(0), <<>>>>,
     <<Inf, <<>>>>}

\* Open positions handed to the first calls.  In the first two the trailing
\* stop is tighter than the stop and extreme_price is the sentinel 0; the
\* third has room to be held and records its initial stop.
OpenStates ==
    {TradeState("LONG", Q(10), Q(9), Q(12), Q(10), 0, Q(0), Q(0)),
     TradeState("SHORT", Q(10), Q(11), Q(8), Q(10), 0, Q(0), Q(0)),
     TradeState("LONG", Q(10), <<19, 2>>, Q(13), <<19, 2>>, 0, Q(10), Q(9))}

----------------------------------------------------------------------------
(***************************************************************************)
(* The caller: it hands process_candle the series of closed candles and    *)
(* the TradeState it keeps, and moves the state as the data model's        *)
(* transitions say.                                                        *)
(***************************************************************************)
VARIABLES
    ohlcv,            \* the closed candles so far
    trade_state,      \* the TradeState the caller keeps
    config,           \* the StrategyConfig
    account_equity,
    contract_specs,
    prev_state,       \* the prev_state of the last call
    output,           \* what the last call returned
    args,             \* the arguments of a function applied on its own
    result            \* what that function returned

vars == <<ohlcv, trade_state, config, account_equity, contract_specs,
          prev_state, output, args, result>>

NoOutput == Output("NONE", "not_called", None)

\* No function has been applied on its own.
NoArgs == [fn |-> "none"]
NoResult == [fn |-> "none"]

Init ==
    /\ ohlcv = <<>>
    /\ trade_state \in {flat} \cup OpenStates
    /\ config \in Configs
    /\ \E acc \in Accounts : account_equity = acc[1] /\ contract_specs = acc[2]
    /\ prev_state = trade_state
    /\ output = NoOutput
    /\ args = NoArgs
    /\ result = NoResult

\* The first call, made before any candle has closed.
ColdCall ==
    /\ ohlcv = <<>>
    /\ output = NoOutput
    /\ prev_state' = trade_state
    /\ output' = Apply("process_candle",
                       <<ohlcv, account_equity, contract_specs, trade_state,
                         config>>)
    /\ UNCHANGED <<ohlcv, trade_state, config, account_equity, contract_specs,
                   args, result>>

\* A candle closes: the caller appends it, calls process_candle with the
\* state it keeps and applies the transition.
CandleClose(candle) ==
    /\ Len(ohlcv) < MaxLen
    /\ output.signal # "RAISE"
    /\ ohlcv' = Append(ohlcv, candle)
    /\ prev_state' = trade_state
    /\ output' = Apply("process_candle",
                       <<ohlcv', account_equity, contract_specs, trade_state,
                         config>>)
    /\ trade_state' \in Apply("Successors",
                              <<trade_state, output', ohlcv', config>>)
    /\ UNCHANGED <<config, account_equity, contract_specs, args, result>>

Next ==
    \/ ColdCall
    \/ \E candle \in Candles : CandleClose(candle)

Spec == Init /\ [][Next]_vars

(***************************************************************************)
(* The same caller fed a series that may hold malformed candles.           *)
(***************************************************************************)
\* Candles that break the data model: high < low, a negative price, a
\* close that is not a number.
MalformedCandles ==
    {[open |-> Q(10), high |-> Q(8), low |-> Q(12), close |-> Q(10),
      volume |-> Q(0)],
     [open |-> Q(-10), high |-> Q(-10), low |-> Q(-10), close |-> Q(-10),
      volume |-> Q(0)],
     [open |-> Q(10), high |-> Q(12), low |-> Q(8), close |-> NaN,
      volume |-> Q(0)]}

InitMalformed ==
    /\ ohlcv = <<>>
    /\ trade_state \in {flat} \cup OpenStates
    /\ config \in {c \in Configs : c.atr_period = 2}
    /\ account_equity = Q(100)
    /\ contract_specs = <<>>
    /\ prev_state = trade_state
    /\ output = NoOutput
    /\ args = NoArgs
    /\ result = NoResult

NextMalformed ==
    \/ ColdCall
    \/ \E candle \in {Candle(10, 10, 10), Candle(8, 10, 12)}
                        \cup MalformedCandles :
          CandleClose(candle)

SpecMalformed == InitMalformed /\ [][NextMalformed]_vars

(***************************************************************************)
(* The same caller with a configuration outside the stated constraints:    *)
(* StrategyConfig is a plain frozen dataclass and constructs with any      *)
(* field values.                                                           *)
(***************************************************************************)
\* One configuration for each constraint, breaking that constraint alone.
InvalidConfigs ==
    LET base == StrategyConfig(2, 3, FALSE, 2, <<1, 2>>)
    IN  {[base EXCEPT !.atr_period = 1],
         [base EXCEPT !.supertrend_factor = Q(0)],
         [base EXCEPT !.risk_atr_mult = <<-1, 2>>],
         [base EXCEPT !.tsl_atr_mult = Q(0)],
         [base EXCEPT !.tp_rr = Q(0)],
         [base EXCEPT !.margin_pct = Q(2)],
         [base EXCEPT !.margin_pct = Q(0)],
         [base EXCEPT !.leverage = 5],
         [base EXCEPT !.leverage_min = 0],
         [base EXCEPT !.max_bars_in_trade = 0],
         [base EXCEPT !.volatility_filter_enabled = TRUE,
                      !.volatility_median_window = 1],
         [base EXCEPT !.flip_confirm_atr_pct = <<-1, 10>>]}

InitInvalidConfig ==
    /\ ohlcv = <<>>
    /\ trade_state = flat
    /\ config \in InvalidConfigs
    /\ account_equity = Q(100)
    /\ contract_specs = <<>>
    /\ prev_state = trade_state
    /\ output = NoOutput
    /\ args = NoArgs
    /\ result = NoResult

SpecInvalidConfig == InitInvalidConfig /\ [][Next]_vars

(***************************************************************************)
(* The hold transitions on their own: a position entered at 10 with its    *)
(* stop one unit away, initial_stop_loss recorded, is carried over bars    *)
(* that fire no exit; on each bar update_trailing is computed on the       *)
(* in-flight state as it is and with initial_stop_loss at its default.     *)
(***************************************************************************)
HoldEntries ==
    {Entered([side |-> "LONG", entry_price |-> Q(10), stop_loss |-> Q(9),
              take_profit |-> Q(14)], Candle(10, 10, 10), TRUE),
     Entered([side |-> "SHORT", entry_price |-> Q(10), stop_loss |-> Q(11),
              take_profit |-> Q(6)], Candle(10, 10, 10), TRUE)}

\* Bars with low <= close = high between 8 and 13.
HoldCandles ==
    {Candle(b[1], b[2], b[2]) : b \in {x \in (8..13) \X (8..13) : x[1] <= x[2]}}

InitHold ==
    /\ ohlcv = <<>>
    /\ trade_state \in HoldEntries
    /\ config \in {StrategyConfig(2, HoldLen + 1, FALSE, 2, <<1, 2>>),
                    StrategyConfig(2, HoldLen + 1, FALSE, 2, Q(2))}
    /\ account_equity = Q(0)
    /\ contract_specs = <<>>
    /\ prev_state = trade_state
    /\ output = NoOutput
    /\ args = NoArgs
    /\ result = NoResult

HoldBar(candle, atr_val) ==
    LET in_flight == [Apply("StateWithExtreme",
                            <<trade_state, candle.high, candle.low>>)
                        EXCEPT !.initial_stop_loss =
                                   trade_state.initial_stop_loss]
    IN  /\ trade_state.bars_in_trade < HoldLen
        /\ Apply("check_exit",
                 <<in_flight, candle.high, candle.low, candle.close, atr_val,
                   config.tp_rr, config.tsl_atr_mult,
                   config.max_bars_in_trade>>) = NoneStr
        /\ args' = [fn |-> "hold", state |-> in_flight, high |-> candle.high,
                    low |-> candle.low, atr |-> atr_val,
                    tsl_mult |-> config.tsl_atr_mult]
        /\ result' = [fn |-> "hold",
                      value |-> Apply("update_trailing",
                                      <<in_flight, candle.high, candle.low,
                                        atr_val, config.tsl_atr_mult>>),
                      fallback |-> Apply("update_trailing",
                                         <<[in_flight EXCEPT
                                               !.initial_stop_loss = Q(0)],
                                           candle.high, candle.low, atr_val,
                                           config.tsl_atr_mult>>)]
        /\ prev_state' = trade_state
        /\ trade_state' = Apply("Held",
                                <<trade_state, candle, atr_val, config>>)
        /\ UNCHANGED <<ohlcv, config, account_equity, contract_specs, output>>

NextHold ==
    \E candle \in HoldCandles, atr_val \in {<<1, 2>>, Q(1), Q(2)} :
        HoldBar(candle, atr_val)

SpecHold == InitHold /\ [][NextHold]_vars

----------------------------------------------------------------------------
----------------------------------------------------------------------------
(***************************************************************************)
(* Functions applied on their own: the arguments are drawn in the initial  *)
(* state and one step applies the function.  The caller's variables rest.  *)
(***************************************************************************)
Idle ==
    /\ ohlcv = <<>>
    /\ trade_state = flat
    /\ config = StrategyConfig(2, 2, TRUE, 2, <<1, 2>>)
    /\ account_equity = Q(0)
    /\ contract_specs = <<>>
    /\ prev_state = flat
    /\ output = NoOutput

Returns(fn, value) == [fn |-> fn, value |-> value]

\* 20 - x: a SHORT is the mirror image of a LONG around the entry price 10.
Mirror(x) == IF x = None THEN None ELSE Sub(Q(20), x)

\* In-flight LONG states as the data model has them: entry 10, initial stop
\* 9; stop_loss is the initial stop until a trailing stop is set and the
\* trailing stop afterwards; a trailing stop is set only once the extreme
\* has reached 1R, and lies between the initial stop and the extreme.
\* initial_stop_loss is recorded, or left at its default 0.0.
TrailingLongs ==
    {TradeState("LONG", Q(10), IF tsl = None THEN Q(9) ELSE tsl, Q(12), tsl,
                1, extreme, initial) :
        <<tsl, extreme, initial>> \in
            {x \in {None, Q(9), <<19, 2>>, <<21, 2>>, <<23, 2>>}
                    \X {Q(10), Q(11), Q(12)} \X {Q(9), Q(0)} :
                x[1] # None => (Ge(x[2], Q(11)) /\ Lt(x[1], x[2]))}}

TrailingShorts ==
    {TradeState("SHORT", Q(10), Mirror(s.stop_loss), Q(8),
                Mirror(s.trailing_stop), 1, Mirror(s.extreme_price),
                IF s.initial_stop_loss = Q(0) THEN Q(0) ELSE Q(11)) :
        s \in TrailingLongs}

\* <<high, low>> of the bar.
TrailingBars == {<<Q(9), Q(8)>>, <<Q(10), Q(9)>>, <<Q(11), Q(10)>>,
                 <<Q(12), Q(11)>>}

\* The arguments of update_trailing, with the initial stop of the position.
TrailingArgs ==
    {[fn |-> "update_trailing", state |-> s,
      initial_stop |-> IF s.position_side = "LONG" THEN Q(9) ELSE Q(11),
      high |-> bar[1], low |-> bar[2], atr |-> atr, tsl_mult |-> tsl_mult] :
        s \in TrailingLongs \cup TrailingShorts, bar \in TrailingBars,
        atr \in {<<1, 2>>, Q(1), Q(2)}, tsl_mult \in {<<1, 2>>, Q(2)}}

\* Positions at decimal prices, where the sum of the 1R test is rounded:
\* entry 0.1 with the initial stop 0.05 away, no trailing stop yet, and bars
\* that reach 0.05, 0.1, 0.15 and 0.2.
DecimalTrailingArgs ==
    {[fn |-> "update_trailing",
      state |-> TradeState(side, FromRatio(1, 10), stop, Q(1), None, 1,
                           FromRatio(1, 10), IF keep THEN stop ELSE Q(0)),
      initial_stop |-> stop, high |-> FromRatio(bar + 1, 20),
      low |-> FromRatio(bar, 20), atr |-> FromRatio(1, 100),
      tsl_mult |-> Q(1)] :
        <<side, stop>> \in {<<"LONG", FromRatio(1, 20)>>,
                            <<"SHORT", FromRatio(3, 20)>>},
        keep \in BOOLEAN, bar \in 1..3}

InitTrailing ==
    Idle /\ args \in TrailingArgs \cup DecimalTrailingArgs /\ result = NoResult

ApplyUpdateTrailing ==
    /\ args.fn = "update_trailing"
    /\ result = NoResult
    /\ result' = Returns("update_trailing",
                         Apply("update_trailing",
                               <<args.state, args.high, args.low, args.atr,
                                 args.tsl_mult>>))
    /\ UNCHANGED <<ohlcv, trade_state, config, account_equity, contract_specs,
                   prev_state, output, args>>

SpecTrailing == InitTrailing /\ [][ApplyUpdateTrailing]_vars

\* atr_above_median applied to ATR arrays of up to MedianLen entries, each
\* undefined, 1, 2 or 3, or an infinity, at every index and for the windows
\* 2 and 3.
MedianArgs ==
    {[fn |-> "atr_above_median", atr |-> atr, idx |-> idx, window |-> window] :
        <<atr, idx>> \in
            {x \in (UNION {[1..n -> {NaN, Q(1), Q(2), Q(3), Inf, Neg(Inf)}] :
                               n \in 1..MedianLen}) \X (0..(MedianLen - 1)) :
                x[2] < Len(x[1])},
        window \in {2, 3}}

InitMedian == Idle /\ args \in MedianArgs /\ result = NoResult

ApplyAtrAboveMedian ==
    /\ args.fn = "atr_above_median"
    /\ result = NoResult
    /\ result' = Returns("atr_above_median",
                         Apply("atr_above_median",
                               <<args.atr, args.idx, args.window>>))
    /\ UNCHANGED <<ohlcv, trade_state, config, account_equity, contract_specs,
                   prev_state, output, args>>

SpecMedian == InitMedian /\ [][ApplyAtrAboveMedian]_vars

\* supertrend applied to arrays of up to SupertrendLen bars with an ATR
\* array of its own: each entry undefined, 0 or 1, in any order.
SupertrendCandles == {Candle(8, 10, 12), Candle(10, 12, 12), Candle(8, 8, 10)}

SupertrendArgs ==
    {[fn |-> "supertrend", high |-> to_arrays(x[1]).h,
      low |-> to_arrays(x[1]).l, close |-> to_arrays(x[1]).c,
      atr |-> x[2], factor |-> Q(1)] :
        x \in {y \in (UNION {[1..n -> SupertrendCandles] :
                                 n \in 1..SupertrendLen})
                       \X (UNION {[1..n -> {NaN, Q(0), Q(1)}] :
                                     n \in 1..SupertrendLen}) :
                   Len(y[1]) = Len(y[2])}}

InitSupertrend == Idle /\ args \in SupertrendArgs /\ result = NoResult

ApplySupertrend ==
    /\ args.fn = "supertrend"
    /\ result = NoResult
    /\ result' = Returns("supertrend",
                         Apply("supertrend",
                               <<args.high, args.low, args.close, args.atr,
                                 args.factor>>))
    /\ UNCHANGED <<ohlcv, trade_state, config, account_equity, contract_specs,
                   prev_state, output, args>>

SpecSupertrend == InitSupertrend /\ [][ApplySupertrend]_vars

\* The indicators as process_candle computes them, on their own: wilder_atr
\* over a series of up to SupertrendLen candles for the periods 2, 3 and 4,
\* and supertrend over that ATR.
SeedArgs ==
    {[fn |-> "indicators", ohlcv |-> series, atr_period |-> period,
      supertrend_factor |-> Q(1)] :
        series \in UNION {[1..n -> Candles] : n \in 1..SupertrendLen},
        period \in {2, 3, 4}}

InitSeed == Idle /\ args \in SeedArgs /\ result = NoResult

ApplyIndicators ==
    /\ args.fn = "indicators"
    /\ result = NoResult
    /\ LET a == to_arrays(args.ohlcv)
           atr == Apply("wilder_atr", <<a.h, a.l, a.c, args.atr_period>>)
       IN  result' = [fn |-> "indicators", atr |-> atr,
                      value |-> Apply("supertrend",
                                      <<a.h, a.l, a.c, atr,
                                        args.supertrend_factor>>)]
    /\ UNCHANGED <<ohlcv, trade_state, config, account_equity, contract_specs,
                   prev_state, output, args>>

SpecSeed == InitSeed /\ [][ApplyIndicators]_vars

\* The in-flight state of lines 93-109 on its own.  The positions were
\* entered at 10; extreme_price is the sentinel 0 or a value on the right
\* side of the entry price; the bar that closed has low <= high between 8
\* and 12.
InFlightStates ==
    {TradeState(side, Q(10), IF side = "LONG" THEN Q(9) ELSE Q(11),
                IF side = "LONG" THEN Q(12) ELSE Q(8), None, bars,
                IF e = 0 THEN Q(0)
                ELSE IF side = "LONG" THEN Q(10 + e - 1) ELSE Q(10 - e + 1),
                Q(0)) :
        side \in {"LONG", "SHORT"}, bars \in {0, 1}, e \in 0..3}

InFlightArgs ==
    {[fn |-> "state_with_extreme", prev_state |-> s, high_val |-> Q(bar[2]),
      low_val |-> Q(bar[1])] :
        s \in InFlightStates,
        bar \in {b \in (8..12) \X (8..12) : b[1] <= b[2]}}

InitInFlight == Idle /\ args \in InFlightArgs /\ result = NoResult

ApplyStateWithExtreme ==
    /\ args.fn = "state_with_extreme"
    /\ result = NoResult
    /\ result' = Returns("state_with_extreme",
                         Apply("StateWithExtreme",
                               <<args.prev_state, args.high_val,
                                 args.low_val>>))
    /\ UNCHANGED <<ohlcv, trade_state, config, account_equity, contract_specs,
                   prev_state, output, args>>

SpecInFlight == InitInFlight /\ [][ApplyStateWithExtreme]_vars

\* check_exit on its own.  LONG positions entered at 10 with the
\* take-profit at 12, the stop at 8 or 9 and a trailing stop that is not
\* set, looser than the stop, equal to it or tighter; SHORT positions are
\* their mirror images.  The bar has low <= high between 7 and 13.
ExitLongs ==
    {TradeState("LONG", Q(10), Q(stop), Q(12),
                IF tsl = 0 THEN None ELSE Q(tsl), bars, Q(10), Q(0)) :
        stop \in {8, 9}, tsl \in {0, 8, 9, 10}, bars \in {1, 2}}

ExitShorts ==
    {TradeState("SHORT", Q(10), Mirror(s.stop_loss), Q(8),
                Mirror(s.trailing_stop), s.bars_in_trade, Q(10), Q(0)) :
        s \in ExitLongs}

ExitArgs ==
    {[fn |-> "check_exit", state |-> s, high |-> Q(bar[2]), low |-> Q(bar[1]),
      close |-> Q(bar[1]), atr |-> Q(1), config_tp_rr |-> Q(2),
      config_tsl_mult |-> <<1, 2>>, config_max_bars |-> 2] :
        s \in ExitLongs \cup ExitShorts,
        bar \in {b \in (7..13) \X (7..13) : b[1] <= b[2]}}

InitExit == Idle /\ args \in ExitArgs /\ result = NoResult

ApplyCheckExit ==
    /\ args.fn = "check_exit"
    /\ result = NoResult
    /\ result' = Returns("check_exit",
                         Apply("check_exit",
                               <<args.state, args.high, args.low, args.close,
                                 args.atr, args.config_tp_rr,
                                 args.config_tsl_mult,
                                 args.config_max_bars>>))
    /\ UNCHANGED <<ohlcv, trade_state, config, account_equity, contract_specs,
                   prev_state, output, args>>

SpecExit == InitExit /\ [][ApplyCheckExit]_vars

(***************************************************************************)
(* A caller that starts FLAT on a history of closed candles: one wide bar  *)
(* followed by still bars at its close.  The true range is 0 from the      *)
(* second bar on, so with atr_period 2 the ATR halves on every bar and     *)
(* stays positive, and the direction turns on every bar while the bands    *)
(* differ.                                                                 *)
(***************************************************************************)
\* The history of n candles that opens with the candle first.
LevelsSeries(first, n) ==
    [i \in 1..n |-> IF i = 1 THEN first ELSE Candle(10, 10, 10)]

\* The volatility filter is off; tp_rr is 2 or 1024.
LevelsConfigs ==
    LET base == StrategyConfig(2, 3, FALSE, 2, <<1, 2>>)
    IN  {base, [base EXCEPT !.tp_rr = Q(1024)]}

InitLevels ==
    /\ ohlcv \in {LevelsSeries(first, n) :
                     first \in {Candle(8, 10, 12), Candle(9, 10, 11)},
                     n \in 1..LevelsLen}
    /\ trade_state = flat
    /\ config \in LevelsConfigs
    /\ account_equity = Q(100)
    /\ contract_specs = [quantity_step |-> Q(0)]
    /\ prev_state = trade_state
    /\ output = NoOutput
    /\ args = NoArgs
    /\ result = NoResult

\* The call on the history.
CallOnHistory ==
    /\ output = NoOutput
    /\ prev_state' = trade_state
    /\ output' = Apply("process_candle",
                       <<ohlcv, account_equity, contract_specs, trade_state,
                         config>>)
    /\ UNCHANGED <<ohlcv, trade_state, config, account_equity, contract_specs,
                   args, result>>

SpecLevels == InitLevels /\ [][CallOnHistory]_vars

----------------------------------------------------------------------------
(***************************************************************************)
(* What the properties below speak about: the last call.                   *)
(***************************************************************************)
Called == output # NoOutput
\* The last call returned a StrategyOutput.
Returned == Called /\ output.signal # "RAISE"

LastCandle == ohlcv[Len(ohlcv)]

\* The series was long enough and the ATR at the last index is a positive
\* number: the call went past both guards.
Evaluated ==
    /\ Called
    /\ Len(ohlcv) >= config.atr_period + 1
    /\ LET a == LastAtr(ohlcv, config) IN ~IsNaN(a) /\ Gt(a, Q(0))

OpenCall == Called /\ prev_state.position_side \in {"LONG", "SHORT"}

FlatCall == Called /\ prev_state.position_side = "FLAT"

Hold(reason) == Output("HOLD", reason, None)

\* The indicators of the last call.
LastIndicators ==
    LET a == to_arrays(ohlcv)
        atr == wilder_atr(a.h, a.l, a.c, config.atr_period)
    IN  supertrend(a.h, a.l, a.c, atr, config.supertrend_factor)

\* The flip on the last bar: "LONG", "SHORT" or "None".
LastFlip ==
    LET d == LastIndicators.direction
        n == Len(ohlcv)
    IN  IF n < 2 THEN NoneStr
        ELSE IF d[n - 1] = -1 /\ d[n] = 1 THEN "LONG"
        ELSE IF d[n - 1] = 1 /\ d[n] = -1 THEN "SHORT"
        ELSE NoneStr

----------------------------------------------------------------------------
(***************************************************************************)
(* C1: exit priority.                                                      *)
(***************************************************************************)
\* The four exit predicates as the exit evaluation states them, on the
\* prev_state of the call and the bar that closed.
C1_Stop ==
    IF prev_state.position_side = "LONG"
    THEN Le(LastCandle.low, prev_state.stop_loss)
    ELSE Ge(LastCandle.high, prev_state.stop_loss)

C1_Tp ==
    IF prev_state.position_side = "LONG"
    THEN Ge(LastCandle.high, prev_state.take_profit)
    ELSE Le(LastCandle.low, prev_state.take_profit)

C1_Trailing ==
    /\ prev_state.trailing_stop # None
    /\ IF prev_state.position_side = "LONG"
       THEN Le(LastCandle.low, prev_state.trailing_stop)
       ELSE Ge(LastCandle.high, prev_state.trailing_stop)

C1_Time == prev_state.bars_in_trade + 1 >= config.max_bars_in_trade

C1_First ==
    IF C1_Stop THEN "stop_hit"
    ELSE IF C1_Tp THEN "tp_hit"
    ELSE IF C1_Trailing THEN "trailing_stop"
    ELSE IF C1_Time THEN "time_exit"
    ELSE NoneStr

\* C1: for an open position whose exits are evaluated, the output is EXIT
\* with the first predicate that holds in the order stop_hit, tp_hit,
\* trailing_stop, time_exit (so stop and take-profit on one bar give
\* stop_hit), and HOLD/position_open when none holds.
C1_ExitPriority ==
    (OpenCall /\ Evaluated) =>
        IF C1_First # NoneStr THEN output = Output("EXIT", C1_First, None)
        ELSE output = Hold("position_open")

\* A bar reached both the stop and the take-profit, and the trailing stop.
C1_Witness ==
    /\ OpenCall /\ Evaluated
    /\ C1_Stop /\ C1_Tp /\ C1_Trailing
    /\ output = Output("EXIT", "stop_hit", None)

(***************************************************************************)
(* C2: the effective stop only tightens.                                   *)
(***************************************************************************)
\* C2: on every bar on which a position stays open, the stop_loss the
\* caller keeps does not decrease for a LONG and does not increase for a
\* SHORT, and a trailing stop that is set stays set.
C2_StopMonotone ==
    [][(/\ trade_state.position_side \in {"LONG", "SHORT"}
        /\ trade_state'.position_side = trade_state.position_side
        /\ output'.signal = "HOLD")
       => /\ IF trade_state.position_side = "LONG"
             THEN Le(trade_state.stop_loss, trade_state'.stop_loss)
             ELSE Ge(trade_state.stop_loss, trade_state'.stop_loss)
          /\ trade_state.trailing_stop # None
                => trade_state'.trailing_stop # None]_vars

\* The candidate level of the bar: extreme -/+ tsl_atr_mult * ATR.
C2_Candidate ==
    IF trade_state.position_side = "LONG"
    THEN Sub(trade_state.extreme_price,
             Mul(config.tsl_atr_mult, LastAtr(ohlcv, config)))
    ELSE Add(trade_state.extreme_price,
             Mul(config.tsl_atr_mult, LastAtr(ohlcv, config)))

\* A held bar past the 1R activation whose candidate level was looser than
\* the trailing stop already set: the stop stayed where it was.
C2_Witness ==
    /\ OpenCall /\ output = Hold("position_open")
    /\ prev_state.trailing_stop # None
    /\ IF trade_state.position_side = "LONG"
       THEN /\ Ge(trade_state.extreme_price,
                  Add(prev_state.entry_price, StopDistance(prev_state)))
            /\ Lt(C2_Candidate, prev_state.trailing_stop)
       ELSE /\ Le(trade_state.extreme_price,
                  Sub(prev_state.entry_price, StopDistance(prev_state)))
            /\ Gt(C2_Candidate, prev_state.trailing_stop)
    /\ trade_state.stop_loss = prev_state.stop_loss

(***************************************************************************)
(* C3: the levels of a proposal.                                           *)
(***************************************************************************)
\* take_profit - entry_price and tp_rr * (entry_price - stop_loss) of a
\* proposal (mirrored for a SHORT), computed as floats from its levels.
C3_Reward(p) ==
    IF p.side = "LONG" THEN Sub(p.take_profit, p.entry_price)
    ELSE Sub(p.entry_price, p.take_profit)
C3_RiskTimesRR(p) ==
    IF p.side = "LONG" THEN Mul(config.tp_rr, Sub(p.entry_price, p.stop_loss))
    ELSE Mul(config.tp_rr, Sub(p.stop_loss, p.entry_price))

\* stop_loss < entry_price < take_profit, mirrored for a SHORT.
C3_Ordered(p) ==
    IF p.side = "LONG"
    THEN Lt(p.stop_loss, p.entry_price) /\ Lt(p.entry_price, p.take_profit)
    ELSE Lt(p.take_profit, p.entry_price) /\ Lt(p.entry_price, p.stop_loss)

\* C3 as stated: a LONG proposal has stop_loss < entry_price < take_profit
\* and take_profit - entry_price = tp_rr * (entry_price - stop_loss), a SHORT
\* proposal the mirror relations, and entry_price is the last close.
C3_AsStated ==
    output.signal \in {"LONG", "SHORT"} =>
        LET p == output.proposed_position[1]
        IN  /\ p.entry_price = LastCandle.close
            /\ C3_Ordered(p)
            /\ C3_Reward(p) = C3_RiskTimesRR(p)

(***************************************************************************)
(* C4: the quantity of a proposal.                                         *)
(***************************************************************************)
\* The step and minimum the call works with: missing keys are 0.001, and so
\* is a step that is not positive.
C4_Step ==
    IF "quantity_step" \in DOMAIN contract_specs
       /\ Gt(contract_specs["quantity_step"], Q(0))
    THEN contract_specs["quantity_step"] ELSE DefaultStep

C4_Min ==
    IF "min_quantity" \in DOMAIN contract_specs
    THEN contract_specs["min_quantity"] ELSE DefaultStep

\* floor((equity * margin_pct * leverage / entry) / step), a whole number
\* held as a float; a quotient that is not finite has no floor and is kept.
C4_Steps(p) ==
    LET raw == Div(Mul(Mul(account_equity, config.margin_pct), Q(p.leverage)),
                   p.entry_price)
        q == Div(raw, C4_Step)
    IN  IF IsFinite(q) THEN Trunc(q) ELSE q

\* C4: the quantity of a proposal is a positive whole number of steps, is
\* at least min_quantity, and is floor(raw / step) * step.
C4_Quantity ==
    output.signal \in {"LONG", "SHORT"} =>
        LET p == output.proposed_position[1]
            k == C4_Steps(p)
        IN  /\ IsFinite(k) /\ FEq(Trunc(k), k) /\ Ge(k, Q(1))
            /\ Ge(p.quantity, C4_Min)
            /\ p.quantity = Mul(k, C4_Step)

\* A proposal whose raw quantity was rounded down to the step.
C4_Witness ==
    /\ output.signal \in {"LONG", "SHORT"}
    /\ LET p == output.proposed_position[1]
       IN  Lt(p.quantity,
              Div(Mul(Mul(account_equity, config.margin_pct), Q(p.leverage)),
                  p.entry_price))

(***************************************************************************)
(* C5: no reversal while a position is open.                               *)
(***************************************************************************)
\* C5: a call with an open position returns HOLD (insufficient_data,
\* invalid_atr or position_open) or EXIT, never LONG or SHORT.
C5_NoReversal ==
    OpenCall =>
        /\ output.signal \in {"HOLD", "EXIT"}
        /\ output.signal = "HOLD" =>
              output.reason \in {"insufficient_data", "invalid_atr",
                                 "position_open"}
        /\ output.proposed_position = None

\* The Supertrend flipped against the open position on the last bar, and
\* no exit fired.
C5_Witness ==
    /\ OpenCall /\ Evaluated
    /\ \/ prev_state.position_side = "LONG" /\ LastFlip = "SHORT"
       \/ prev_state.position_side = "SHORT" /\ LastFlip = "LONG"
    /\ output = Hold("position_open")

(***************************************************************************)
(* C6: the output is well formed.                                          *)
(***************************************************************************)
Reasons ==
    {"insufficient_data", "invalid_atr", "invalid_input", "no_flip",
     "volatility_filter", "below_min_qty", "position_open", "supertrend_flip",
     "stop_hit", "tp_hit", "trailing_stop", "time_exit"}

\* C6: in every output returned, signal and reason come from their closed
\* sets; a proposal is present exactly with LONG and SHORT; EXIT comes only
\* with an exit reason and an open prev_state; supertrend_flip comes only
\* with LONG and SHORT.
C6_WellFormed ==
    Returned =>
        /\ output.signal \in {"HOLD", "LONG", "SHORT", "EXIT"}
        /\ output.reason \in Reasons
        /\ (output.proposed_position # None)
              <=> output.signal \in {"LONG", "SHORT"}
        /\ output.signal = "EXIT" =>
              /\ output.reason \in {"stop_hit", "tp_hit", "trailing_stop",
                                    "time_exit"}
              /\ prev_state.position_side # "FLAT"
        /\ output.reason = "supertrend_flip" =>
              output.signal \in {"LONG", "SHORT"}
        /\ output.signal \in {"LONG", "SHORT"} =>
              output.proposed_position[1].side = output.signal

\* A flip was found and sized to nothing: HOLD, and no proposal.
C6_Witness ==
    /\ FlatCall /\ Evaluated
    /\ LastFlip # NoneStr
    /\ output = Hold("below_min_qty")

(***************************************************************************)
(* C7: process_candle always returns.                                      *)
(***************************************************************************)
\* C7: no call raises, whatever the length of the series (the empty series
\* and series shorter than the ATR period included), the equity, the
\* contract_specs and the prev_state: every call returns a StrategyOutput.
C7_Total ==
    /\ output.signal # "RAISE"
    /\ Called => output.signal \in {"HOLD", "LONG", "SHORT", "EXIT"}

(***************************************************************************)
(* C8: insufficient data.                                                  *)
(***************************************************************************)
\* C8: with fewer than atr_period + 1 candles the output is
\* HOLD/insufficient_data without a proposal, for a FLAT state and for an
\* open position alike.
C8_InsufficientData ==
    (Called /\ Len(ohlcv) < config.atr_period + 1) =>
        output = Hold("insufficient_data")

\* An open position whose stop was breached by the last candle of a series
\* of exactly atr_period candles.
C8_Witness ==
    /\ OpenCall /\ Len(ohlcv) = config.atr_period
    /\ C1_Stop
    /\ output = Hold("insufficient_data")

(***************************************************************************)
(* C9: invalid ATR.                                                        *)
(***************************************************************************)
\* C9: with at least atr_period + 1 candles and an ATR at the last index
\* that is undefined or not positive, the output is HOLD/invalid_atr, for
\* an open position and for a FLAT state alike.
C9_InvalidAtr ==
    (/\ Called
     /\ Len(ohlcv) >= config.atr_period + 1
     /\ LET a == LastAtr(ohlcv, config) IN IsNaN(a) \/ Le(a, Q(0)))
    => output = Hold("invalid_atr")

\* An open position whose trailing stop was reached on a bar with ATR 0.
C9_Witness ==
    /\ OpenCall /\ Len(ohlcv) >= config.atr_period + 1
    /\ LastAtr(ohlcv, config) = Q(0)
    /\ C1_Trailing
    /\ output = Hold("invalid_atr")

(***************************************************************************)
(* C10: flip confirmation.                                                 *)
(***************************************************************************)
\* The flip on the last bar fails the confirmation buffer
\* buf = flip_confirm_atr_pct * ATR[i].
C10_Unconfirmed ==
    LET n == Len(ohlcv)
        st == LastIndicators.st[n]
        buf == Mul(config.flip_confirm_atr_pct, LastAtr(ohlcv, config))
    IN  \/ LastFlip = "LONG" /\ Lt(LastCandle.close, Add(st, buf))
        \/ LastFlip = "SHORT" /\ Gt(LastCandle.close, Sub(st, buf))

\* C10: for a FLAT prev_state, a flip whose close does not clear the
\* Supertrend level by the buffer gives HOLD/no_flip, never a proposal.
C10_FlipConfirmation ==
    (FlatCall /\ Evaluated /\ C10_Unconfirmed) => output = Hold("no_flip")

(***************************************************************************)
(* C11: malformed input.                                                   *)
(***************************************************************************)
\* A candle with high < low, a negative price or a non-finite number.
C11_Malformed(candle) ==
    \/ Lt(candle.high, candle.low)
    \/ \E f \in {"open", "high", "low", "close", "volume"} :
          ~IsFinite(candle[f]) \/ Lt(candle[f], Q(0))

\* C11: a call on a series that holds a malformed candle returns
\* HOLD/invalid_input with no proposal.
C11_InvalidInput ==
    (Called /\ \E i \in 1..Len(ohlcv) : C11_Malformed(ohlcv[i]))
        => output = Hold("invalid_input")

(***************************************************************************)
(* C12: the time exit.                                                     *)
(***************************************************************************)
\* C12: on an evaluated bar with prev_state.bars_in_trade + 1 >=
\* max_bars_in_trade the output is EXIT; the reason is time_exit exactly
\* when that holds and no stop, take-profit or trailing predicate fires;
\* and the position the caller keeps has never been held max_bars_in_trade
\* bars.
C12_TimeExit ==
    /\ (OpenCall /\ Evaluated) =>
          /\ C1_Time => output.signal = "EXIT"
          /\ output.reason = "time_exit"
                <=> (C1_Time /\ ~C1_Stop /\ ~C1_Tp /\ ~C1_Trailing)
    /\ output.reason = "time_exit" => (OpenCall /\ Evaluated)
    /\ trade_state.position_side # "FLAT"
          => trade_state.bars_in_trade < config.max_bars_in_trade

\* A position held for max_bars_in_trade - 1 bars leaves on the next bar
\* with time_exit.
C12_Witness ==
    /\ OpenCall /\ Evaluated
    /\ prev_state.bars_in_trade >= 1
    /\ prev_state.bars_in_trade + 1 = config.max_bars_in_trade
    /\ output = Output("EXIT", "time_exit", None)

(***************************************************************************)
(* C13: update_trailing against the reference rule.                        *)
(***************************************************************************)
\* The reference rule on the arguments: the extreme including the bar, the
\* 1R distance D, the activation test and the candidate level.
C13_Long == args.state.position_side = "LONG"
C13_Extreme ==
    IF C13_Long THEN PyMax(args.state.extreme_price, args.high)
    ELSE PyMin(args.state.extreme_price, args.low)
C13_D == FAbs(Sub(args.state.entry_price, args.initial_stop))
C13_Active ==
    IF C13_Long THEN Ge(C13_Extreme, Add(args.state.entry_price, C13_D))
    ELSE Le(C13_Extreme, Sub(args.state.entry_price, C13_D))
C13_Candidate ==
    IF C13_Long THEN Sub(C13_Extreme, Mul(args.tsl_mult, args.atr))
    ELSE Add(C13_Extreme, Mul(args.tsl_mult, args.atr))
\* The previous trailing level or, on first activation, the initial stop.
C13_Floor ==
    IF args.state.trailing_stop = None THEN args.initial_stop
    ELSE args.state.trailing_stop

\* C13: update_trailing returns None exactly when no trailing stop is set
\* and the extreme has not reached entry +/- D; when it has, it returns the
\* candidate clamped by max (LONG) or min (SHORT) with the previous
\* trailing level or the initial stop; with a trailing stop set the result
\* is never None and never looser than the initial stop.
C13_ReferenceRule ==
    result.fn = "update_trailing" =>
        /\ (result.value = None)
              <=> (args.state.trailing_stop = None /\ ~C13_Active)
        /\ C13_Active =>
              result.value = IF C13_Long THEN PyMax(C13_Floor, C13_Candidate)
                             ELSE PyMin(C13_Floor, C13_Candidate)
        /\ args.state.trailing_stop # None =>
              /\ result.value # None
              /\ IF C13_Long THEN Ge(result.value, args.initial_stop)
                 ELSE Le(result.value, args.initial_stop)

\* A first activation exactly at 1R whose candidate is looser than the
\* initial stop: the trailing stop starts at the initial stop.
C13_Witness ==
    /\ result.fn = "update_trailing"
    /\ args.state.trailing_stop = None
    /\ C13_Extreme = IF C13_Long THEN Q(11) ELSE Q(9)
    /\ IF C13_Long THEN Lt(C13_Candidate, args.initial_stop)
       ELSE Gt(C13_Candidate, args.initial_stop)
    /\ result.value = args.initial_stop

(***************************************************************************)
(* C15: the volatility filter.                                             *)
(***************************************************************************)
\* The window ATR[i-W .. i-1] of the call, for i >= W.
C15_Window == [j \in 1..args.window |-> args.atr[args.idx - args.window + j]]
\* The k-th smallest value of the window (all entries defined).
C15_Kth(k) ==
    CHOOSE v \in {C15_Window[j] : j \in 1..args.window} :
        /\ Cardinality({j \in 1..args.window : Lt(C15_Window[j], v)}) < k
        /\ k <= Cardinality({j \in 1..args.window : Le(C15_Window[j], v)})
\* The median: for an even W the mean of the two middle values.
C15_Median ==
    IF args.window % 2 = 1 THEN C15_Kth((args.window + 1) \div 2)
    ELSE Div(Add(C15_Kth(args.window \div 2),
                 C15_Kth(args.window \div 2 + 1)), Q(2))
C15_ShortHistory == args.idx < args.window
C15_WindowUndefined == \E j \in 1..args.window : IsNaN(C15_Window[j])

\* C15 as stated: the result is true exactly when i < W, or an entry of
\* the window ATR[i-W .. i-1] is undefined, or ATR[i] is strictly greater
\* than the median of the window.
C15_AsStated ==
    result.fn = "atr_above_median" =>
        (result.value <=>
            (\/ C15_ShortHistory
             \/ C15_WindowUndefined
             \/ Gt(args.atr[args.idx + 1], C15_Median)))

\* C15, amended: the result is true exactly when i < W, or an entry of
\* ATR[i-W .. i] (the window or ATR[i] itself) is undefined, or the median
\* of ATR[i-W .. i-1] is itself undefined (the mean of -inf and +inf), or
\* ATR[i] is strictly greater than that median; with a complete history and
\* ATR[i] less than or equal to the median it is false.
C15_MedianFilter ==
    result.fn = "atr_above_median" =>
        (result.value <=>
            (\/ C15_ShortHistory
             \/ C15_WindowUndefined
             \/ IsNaN(args.atr[args.idx + 1])
             \/ IsNaN(C15_Median)
             \/ Gt(args.atr[args.idx + 1], C15_Median)))

\* An even window of two different values and an ATR[i] equal to their
\* mean: not strictly greater, so the result is false.
C15_Witness ==
    /\ result.fn = "atr_above_median"
    /\ args.window = 2 /\ ~C15_ShortHistory /\ ~C15_WindowUndefined
    /\ C15_Window[1] # C15_Window[2]
    /\ args.atr[args.idx + 1] = C15_Median
    /\ result.value = FALSE

(***************************************************************************)
(* C16: the gates of a FLAT call, in order.                                *)
(***************************************************************************)
\* The volatility filter is enabled and fails on the last bar.
C16_FilterFails ==
    /\ config.volatility_filter_enabled
    /\ LET a == to_arrays(ohlcv)
           atr == wilder_atr(a.h, a.l, a.c, config.atr_period)
       IN  ~atr_above_median(atr, Len(ohlcv) - 1,
                             config.volatility_median_window)

\* The quantity rounded down to the step, for an entry at the last close.
C16_Rounded ==
    LET leverage == IntMax(config.leverage_min,
                           IntMin(config.leverage_max, config.leverage))
        raw == Div(Mul(Mul(account_equity, config.margin_pct), Q(leverage)),
                   LastCandle.close)
    IN  Mul(Trunc(Div(raw, C4_Step)), C4_Step)

\* The sizing gives a zero quantity.
C16_ZeroQuantity ==
    \/ Le(account_equity, Q(0))
    \/ Le(LastCandle.close, Q(0))
    \/ Le(config.margin_pct, Q(0))
    \/ Lt(C16_Rounded, C4_Min)

\* C16: a FLAT call past both guards is decided by the first failing gate:
\* no flip gives HOLD/no_flip; else an enabled volatility filter that fails
\* gives HOLD/volatility_filter; else a zero quantity gives
\* HOLD/below_min_qty; else the output is the flip's side with reason
\* supertrend_flip and a proposal on that side.
C16_GateOrder ==
    (FlatCall /\ Evaluated /\ Returned) =>
        IF LastFlip = NoneStr THEN output = Hold("no_flip")
        ELSE IF C16_FilterFails THEN output = Hold("volatility_filter")
        ELSE IF C16_ZeroQuantity THEN output = Hold("below_min_qty")
        ELSE /\ output.signal = LastFlip
             /\ output.reason = "supertrend_flip"
             /\ output.proposed_position # None
             /\ output.proposed_position[1].side = LastFlip

\* A flip on which both the filter and the sizing fail: the filter, the
\* earlier gate, names the reason.
C16_Witness ==
    /\ FlatCall /\ Evaluated /\ Returned
    /\ LastFlip # NoneStr
    /\ C16_FilterFails
    /\ IsFinite(account_equity)
    /\ C16_ZeroQuantity
    /\ output = Hold("volatility_filter")

(***************************************************************************)
(* C17: the Supertrend direction once defined.                             *)
(***************************************************************************)
\* The ATR at the 0-based index i is a positive number.
C17_ValidAtr(i) == ~IsNaN(args.atr[i + 1]) /\ Gt(args.atr[i + 1], Q(0))

\* The 0-based index i is at or after some index >= 1 with a valid ATR.
C17_Defined(i) == \E j \in 1..i : C17_ValidAtr(j)

\* C17: in the output of supertrend the direction is +1 or -1 at every
\* index from the first index >= 1 with a valid ATR onward, whatever the ATR
\* is at the later indices, and is 0 at every index before it.
C17_DirectionOnceDefined ==
    result.fn = "supertrend" =>
        \A i \in 0..(Len(args.close) - 1) :
            LET d == result.value.direction[i + 1]
            IN  IF C17_Defined(i) THEN d \in {1, -1} ELSE d = 0

\* A direction of -1 carried over an index whose ATR is undefined.
C17_Witness ==
    /\ result.fn = "supertrend"
    /\ \E i \in 2..(Len(args.close) - 1) :
           /\ C17_Defined(i - 1)
           /\ IsNaN(args.atr[i + 1])
           /\ result.value.direction[i] = -1
           /\ result.value.direction[i + 1] = -1

(***************************************************************************)
(* C18: the seed of the direction.                                         *)
(***************************************************************************)
\* The series reaches the 0-based index atr_period - 1, where the ATR
\* becomes defined, and the ATR there is a positive number.
C18_FirstDefined ==
    /\ result.fn = "indicators"
    /\ Len(args.ohlcv) >= args.atr_period
    /\ \A j \in 1..(args.atr_period - 1) : IsNaN(result.atr[j])
    /\ ~IsNaN(result.atr[args.atr_period])
    /\ Gt(result.atr[args.atr_period], Q(0))

\* C18: at the first index where the ATR becomes defined, i = P - 1 for the
\* ATR period P, the direction is seeded to +1, for every P >= 2 and
\* whatever the close is relative to the bands there.
C18_SeedBullish ==
    C18_FirstDefined => result.value.direction[args.atr_period] = 1

(***************************************************************************)
(* C19: the extreme price of the in-flight state.                          *)
(***************************************************************************)
\* extreme_price >= entry_price for a LONG, <= entry_price for a SHORT.
C19_Holds(s) ==
    IF s.position_side = "LONG" THEN Ge(s.extreme_price, s.entry_price)
    ELSE Le(s.extreme_price, s.entry_price)

\* C19: the in-flight state built for an open position has its extreme
\* price on the right side of the entry price, for every prev_state whose
\* extreme price already is or is the sentinel 0.
C19_ExtremeInvariant ==
    (/\ result.fn = "state_with_extreme"
     /\ \/ C19_Holds(args.prev_state)
        \/ FEq(args.prev_state.extreme_price, Q(0)))
        => C19_Holds(result.value)

\* The same for a prev_state whose extreme price is not the sentinel.
C19_Running ==
    (/\ result.fn = "state_with_extreme"
     /\ C19_Holds(args.prev_state)
     /\ ~FEq(args.prev_state.extreme_price, Q(0)))
        => C19_Holds(result.value)

(***************************************************************************)
(* C20: validation of the configuration.                                   *)
(***************************************************************************)
\* The constraints a StrategyConfig must meet.
C20_Valid(c) ==
    /\ c.atr_period >= 2
    /\ Gt(c.supertrend_factor, Q(0))
    /\ Gt(c.risk_atr_mult, Q(0))
    /\ Gt(c.tsl_atr_mult, Q(0))
    /\ Gt(c.tp_rr, Q(0))
    /\ Gt(c.margin_pct, Q(0)) /\ Le(c.margin_pct, Q(1))
    /\ 1 <= c.leverage_min
    /\ c.leverage_min <= c.leverage
    /\ c.leverage <= c.leverage_max
    /\ c.max_bars_in_trade >= 1
    /\ c.volatility_median_window >= 2
    /\ Ge(c.flip_confirm_atr_pct, Q(0))

\* C20: a configuration that breaks a constraint is rejected: no call made
\* with it returns a decision.
C20_ConfigRejected ==
    (Called /\ ~C20_Valid(config)) => ~Returned

(***************************************************************************)
(* C21: the Wilder ATR.                                                    *)
(***************************************************************************)
\* The true range at the 0-based index i: the bar's range, and from the
\* second bar on the larger of it and the distances of the high and of the
\* low from the previous close.
C21_TR(i) ==
    LET c == args.ohlcv[i + 1]
        range == Sub(c.high, c.low)
    IN  IF i = 0 THEN range
        ELSE LET pc == args.ohlcv[i].close
                 up == FAbs(Sub(c.high, pc))
                 down == FAbs(Sub(c.low, pc))
             IN  CHOOSE x \in {range, up, down} :
                     Ge(x, range) /\ Ge(x, up) /\ Ge(x, down)

RECURSIVE C21_SumTR(_)
\* TR[0] + ... + TR[i]
C21_SumTR(i) == IF i < 0 THEN Q(0) ELSE Add(C21_SumTR(i - 1), C21_TR(i))

RECURSIVE C21_Atr(_)
\* The ATR at the 0-based index i by the recurrence.
C21_Atr(i) ==
    LET P == args.atr_period
    IN  IF i < P - 1 THEN NaN
        ELSE IF i = P - 1 THEN Div(C21_SumTR(P - 1), Q(P))
        ELSE Div(Add(Mul(C21_Atr(i - 1), Q(P - 1)), C21_TR(i)), Q(P))

C22_NewLevel ==
    update_trailing(StateWithExtreme(prev_state, LastCandle.high,
                                     LastCandle.low),
                    LastCandle.high, LastCandle.low, LastAtr(ohlcv, config),
                    config.tsl_atr_mult)

\* The recomputed level lies beyond the bar's own low (LONG) or high
\* (SHORT): evaluated against it, the bar would exit.
C22_BarCrossesNewLevel ==
    /\ C22_NewLevel # None
    /\ IF prev_state.position_side = "LONG"
       THEN Gt(C22_NewLevel, LastCandle.low)
       ELSE Lt(C22_NewLevel, LastCandle.high)

\* C22: on a bar with an open position the exits are decided by the
\* stop_loss, take_profit and trailing_stop of prev_state and by
\* bars_in_trade + 1, and the trailing level is recomputed afterwards: a bar
\* that crosses the level it would itself set exits by a stop only if it
\* reaches the stop levels of prev_state, and is held when no predicate on
\* prev_state's levels fires.
C22_ExitBeforeTrail ==
    (OpenCall /\ Evaluated) =>
        /\ output.signal = "EXIT" <=> (C1_Stop \/ C1_Tp \/ C1_Trailing \/ C1_Time)
        /\ output.signal # "EXIT" => output = Hold("position_open")
        /\ (C22_BarCrossesNewLevel /\ ~C1_Stop /\ ~C1_Trailing) =>
                output.reason \notin {"stop_hit", "trailing_stop"}

\* A held bar that crosses the trailing level it sets, which is tighter
\* than every stop level of prev_state.
C22_Witness ==
    /\ OpenCall /\ Evaluated
    /\ C22_BarCrossesNewLevel
    /\ C22_NewLevel # prev_state.trailing_stop
    /\ C22_NewLevel # prev_state.stop_loss
    /\ output = Hold("position_open")

(***************************************************************************)
(* C23: the direction under the implemented rule.                          *)
(***************************************************************************)
\* The ATR array of the last call.
C23_Atr ==
    LET a == to_arrays(ohlcv)
    IN  wilder_atr(a.h, a.l, a.c, config.atr_period)

\* The 0-based indices i >= 2 at which the ATR is a positive number both at
\* i - 1 and at i.
C23_Consecutive(atr) ==
    {i \in 2..(Len(atr) - 1) :
        /\ ~IsNaN(atr[i]) /\ Gt(atr[i], Q(0))
        /\ ~IsNaN(atr[i + 1]) /\ Gt(atr[i + 1], Q(0))}

\* The close at the 0-based index i lies between the bands of that index.
C23_Within(ind, i) ==
    /\ Ge(ohlcv[i + 1].close, ind.lower_band[i + 1])
    /\ Le(ohlcv[i + 1].close, ind.upper_band[i + 1])

\* The bands at the 0-based index i - 1 are distinct: the level st[i - 1]
\* tells which of them is active.
C23_Distinct(ind, i) == ind.lower_band[i] # ind.upper_band[i]

\* The two rules of change at the 0-based index i: -1 on the upper band
\* with close <= upper gives +1; +1 on the lower band, the bands distinct,
\* with close >= lower gives -1.
C23_Changes(ind, i) ==
    LET d == ind.direction
        c == ohlcv[i + 1].close
    IN  /\ (/\ d[i] = -1
            /\ ind.st[i] = ind.upper_band[i]
            /\ Le(c, ind.upper_band[i + 1])) => d[i + 1] = 1
        /\ (/\ d[i] = 1
            /\ ind.st[i] = ind.lower_band[i]
            /\ C23_Distinct(ind, i)
            /\ Ge(c, ind.lower_band[i + 1])) => d[i + 1] = -1

\* The direction is kept at the 0-based index i only if the close breaks
\* beyond the active band, and a close between the bands is a flip.
C23_KeptOnlyOnBreak(ind, i) ==
    LET d == ind.direction
        c == ohlcv[i + 1].close
    IN  /\ d[i + 1] = d[i] =>
               \/ d[i] = -1 /\ Gt(c, ind.upper_band[i + 1])
               \/ d[i] = 1 /\ Lt(c, ind.lower_band[i + 1])
        /\ C23_Within(ind, i) => detect_flip(d, i) # NoneStr

\* C23 as stated: on consecutive bars with a valid ATR the direction changes
\* on every bar whose close stays within the active band and is kept only
\* on a bar whose close breaks beyond that band; so detect_flip reports a
\* flip on every bar whose close is between the bands, and a FLAT call on
\* such a bar is never HOLD/no_flip.
C23_AsStated ==
    Called =>
        LET ind == LastIndicators
            consecutive == C23_Consecutive(C23_Atr)
            last == Len(ohlcv) - 1
        IN  /\ \A i \in consecutive :
                   C23_Changes(ind, i) /\ C23_KeptOnlyOnBreak(ind, i)
            /\ (/\ FlatCall /\ Evaluated
                /\ last \in consecutive
                /\ C23_Within(ind, last)) => output # Hold("no_flip")

\* C23 amended: the same, with the direction kept only on a break, and a
\* flip on every close between the bands, on the bars whose previous bands
\* are distinct.
C23_FlipsEveryBar ==
    Called =>
        LET ind == LastIndicators
            consecutive == C23_Consecutive(C23_Atr)
            last == Len(ohlcv) - 1
        IN  /\ \A i \in consecutive :
                   /\ C23_Changes(ind, i)
                   /\ C23_Distinct(ind, i) => C23_KeptOnlyOnBreak(ind, i)
            /\ (/\ FlatCall /\ Evaluated
                /\ last \in consecutive
                /\ C23_Distinct(ind, last)
                /\ C23_Within(ind, last)) => output # Hold("no_flip")

\* A FLAT call on the third bar in a row whose close is between the bands,
\* the bands distinct throughout: the direction changed on each of them and
\* the call is past the flip gate.
C23_Witness ==
    /\ FlatCall /\ Evaluated
    /\ Len(ohlcv) = 5
    /\ output # Hold("no_flip")
    /\ LET ind == LastIndicators
       IN  /\ {2, 3, 4} \subseteq C23_Consecutive(C23_Atr)
           /\ \A i \in {2, 3, 4} : C23_Within(ind, i) /\ C23_Distinct(ind, i)
           /\ ind.direction[3] # ind.direction[4]
           /\ ind.direction[4] # ind.direction[5]

(***************************************************************************)
(* C24: the reason trailing_stop.                                          *)
(***************************************************************************)
\* The bar reaches the trailing level of the state.
C24_ReachesTrailing ==
    /\ args.state.trailing_stop # None
    /\ IF args.state.position_side = "LONG"
       THEN Le(args.low, args.state.trailing_stop)
       ELSE Ge(args.high, args.state.trailing_stop)

\* The trailing stop is strictly tighter than stop_loss: closer to the
\* price, above it for a LONG and below it for a SHORT.
C24_Tighter ==
    /\ args.state.trailing_stop # None
    /\ IF args.state.position_side = "LONG"
       THEN Gt(args.state.trailing_stop, args.state.stop_loss)
       ELSE Lt(args.state.trailing_stop, args.state.stop_loss)

\* C24: when stop_loss equals trailing_stop, check_exit never returns
\* trailing_stop: every bar that reaches the trailing level is reported as
\* stop_hit; the reason trailing_stop comes only from a state whose
\* trailing_stop is strictly tighter than its stop_loss.
C24_TrailingShadowed ==
    result.fn = "check_exit" =>
        /\ args.state.stop_loss = args.state.trailing_stop =>
               /\ result.value # "trailing_stop"
               /\ C24_ReachesTrailing => result.value = "stop_hit"
        /\ result.value = "trailing_stop" => C24_Tighter

\* A bar that reaches the trailing level of a state whose stop_loss is that
\* level, and not the take-profit: reported as stop_hit.
C24_Witness ==
    /\ result.fn = "check_exit"
    /\ args.state.stop_loss = args.state.trailing_stop
    /\ C24_ReachesTrailing
    /\ ~TpHit(args.state, args.high, args.low)
    /\ result.value = "stop_hit"

(***************************************************************************)
(* C25: the fallback of the 1R distance.                                   *)
(***************************************************************************)
\* C25: on every state reached from an entry by hold transitions,
\* update_trailing returns the same value with initial_stop_loss recorded
\* and with initial_stop_loss left at 0, where the 1R distance is taken
\* from the current stop_loss.
C25_FallbackEquivalent ==
    result.fn = "hold" => result.value = result.fallback

\* A ratchet step on a state whose stop has been trailed beyond the entry
\* price, so that the two 1R distances differ.
C25_Witness ==
    /\ result.fn = "hold"
    /\ args.state.trailing_stop # None
    /\ args.state.stop_loss = args.state.trailing_stop
    /\ FAbs(Sub(args.state.entry_price, args.state.stop_loss))
           # FAbs(Sub(args.state.entry_price, args.state.initial_stop_loss))
    /\ result.value # args.state.trailing_stop
    /\ result.value = result.fallback

=============================================================================
